---- MODULE Spec2Model ----
(***************************************************************************)
(* cable_car: UDP-broadcast discovery (BroadcastConnector) and the         *)
(* buffered message transport (Messenger) with its two frame codecs.       *)
(*                                                                         *)
(* Part I models broadcast_connector.py: two hosts on one subnet.  A host  *)
(* either runs a BroadcastConnector, whose connect() starts four worker    *)
(* threads and may be called again while threads of the call before still  *)
(* run, or is a remote peer of which only the network traffic is seen.     *)
(* Every worker is a program counter; one action is one step of a thread   *)
(* between two accesses to shared state (the enabled flag, the PeerTable,  *)
(* the mutex, the network).                                                *)
(*                                                                         *)
(* Part II models messenger.py, json_messages.py and byte_messages.py: one *)
(* Messenger on a connected socket, the bytes in flight in both directions *)
(* and the calls of the application; the codecs are operators on byte      *)
(* sequences.  The two parts share no state; each specification moves the  *)
(* variables of one part and leaves the other part as constructed.         *)
(***************************************************************************)
EXTENDS Integers, Sequences, FiniteSets, TLC

\* ------------------------------------------------------------------ bounds
\* Session timeout, in clock ticks, of a session configured with a timeout.
TimeoutTicks == 1

\* ------------------------------------------------------- program constants
\* broadcast_interval, in clock ticks (one tick is one broadcast interval).
BroadcastInterval == 1

\* The hosts of the subnet; host h has IP address h.
Hosts == {1, 2}

NoAddr == 0

\* The threads of one kind (broadcaster, discovery listener, connection
\* listener, timeout worker) on a host: thread h is the one the attribute of
\* the BroadcastConnector of host h refers to; thread Former(h) is one that
\* an earlier connect() of host h started and that runs on after a later
\* connect() replaced the attribute.
Former(h) == h + 2
Threads == Hosts \cup {Former(h) : h \in Hosts}

\* The host whose BroadcastConnector the thread w works on (its `self`).
Owner(w) == IF w \in Hosts THEN w ELSE w - 2

VARIABLES
    allow_loopback,   \* BroadcastConnector.allow_loopback, per host
    timeout,          \* BroadcastConnector.timeout, per host (0 = none)
    on_connect,       \* on_connect_function: "none", "noop" or "stop"
    broadcast_enable, \* the enabled flag, per host
    local_ip,         \* resolved local address, per host (NoAddr before start)
    sockets,          \* the PeerTable: sockets[h][a] in {"none","out","in"}
    lock,             \* __socket_lock holder: "free", "udp" or "tcp"
    mpc,              \* main thread: "init", the positions of connect()
                      \* ("made", "started_broadcast", "started_udp",
                      \* "started_tcp", "join"), "returned", "interrupted",
                      \* "raised"; "off" for a host that is a remote peer
                      \* or on which the program is yet to be made
    bpc,              \* broadcaster thread position, per thread
    upc,              \* discovery-listener thread position, per thread
    tpc,              \* connection-listener thread position, per thread
    opc,              \* timeout thread position, per thread
    uaddr,            \* address the discovery listener is connecting to
    half_made,        \* the socket of line 125 exists and is neither
                      \* connected nor closed, per discovery listener
    taddr,            \* peer address of the connection just accepted
    bwait,            \* ticks until time.time() >= next_broadcast, per
                      \* broadcaster
    time_left,        \* ticks until time.time() >= _quitting_time, per host
    dgram,            \* datagrams queued on the UDP socket of a discovery
                      \* listener (senders)
    backlog           \* completed TCP connections awaiting accept on the
                      \* socket of a connection listener (peers)

\* Part II: one Messenger over one connected socket, and the socket's peer.
VARIABLES
    transport,        \* the codec module in use, "json" or "byte": the
                      \* Messenger's transport, or the module whose
                      \* class a direct caller of the codec names
    read_buffer,      \* Messenger.__read_buffer, a sequence of bytes
    write_buffer,     \* Messenger.__write_buffer, a sequence of bytes
    closed,           \* Messenger.closed
    inbound,          \* bytes the peer has written that recv() has not returned
    wire_out,         \* every byte send() on the socket has accepted, in order
    sent_bytes,       \* encoded() of every message passed to send(), in order
    peer_items,       \* what the peer has written, item by item
    feed,             \* what the peer writes: "clean" (encoded messages of
                      \* registered types) or "dirty" (any line of the catalogue)
    got,              \* the messages get() has returned, in order
    result,           \* the outcome of the last call on the Messenger
    shutdowns,        \* how many times socket.shutdown() has been performed
    spc,              \* position of a shutdown() call: "idle" or "loop"
    watchdog,         \* the local counter of the shutdown() call
    classes,          \* the message classes of the process: the base class of
                      \* each class name, Undefined for a class not (yet) defined
    class_defs        \* Message.class_defs: the keys registered (each key maps
                      \* to the class of that name)

dvars == <<allow_loopback, timeout, on_connect, broadcast_enable, local_ip,
           sockets, lock, mpc, bpc, upc, tpc, opc, uaddr, half_made, taddr,
           bwait, time_left, dgram, backlog>>

messenger == <<transport, read_buffer, write_buffer, closed, inbound,
               wire_out, sent_bytes, peer_items, feed, got, result,
               shutdowns, spc, watchdog, classes, class_defs>>

vars == <<dvars, messenger>>

\* Groups of variables an action leaves alone.
config == <<allow_loopback, timeout, on_connect>>
timers == <<bwait, time_left>>
net == <<dgram, backlog>>
attempt == <<uaddr, half_made>>
drain == <<spc, watchdog>>
registry == <<classes, class_defs>>
setup == <<transport, feed, registry>>

\* addresses(): the keys of the PeerTable.
addresses(h) == {a \in Hosts : sockets[h][a] # "none"}

\* A thread that has left its function, normally or by an uncaught exception.
Exited(pc) == pc \in {"done", "dead"}

\* A thread that has been started and has not left its function.
Alive(pc) == pc \notin {"idle", "done", "dead"}

\* The UDP socket of thread w is bound and the thread is alive.
UdpBound(w) == upc[w] \notin {"idle", "setup", "done", "dead"}

\* The TCP socket of thread w is listening and the thread is alive.
TcpListening(w) == tpc[w] \notin {"idle", "setup", "done", "dead"}

\* A socket of the machine at address a is bound to the discovery port, or
\* listens on the connection port: bind() of another socket to that port
\* fails (neither socket allows the port to be shared).
UdpOpen(a) == \E v \in Threads : Owner(v) = a /\ UdpBound(v)
TcpOpen(a) == \E v \in Threads : Owner(v) = a /\ TcpListening(v)

\* The thread whose socket receives what arrives at the port of address a.
Receiver(a) == CHOOSE v \in Threads : Owner(v) = a /\ UdpBound(v)
Listener(a) == CHOOSE v \in Threads : Owner(v) = a /\ TcpListening(v)

\* A host that does not run a session here: a remote peer.
Remote(a) == mpc[a] = "off"

\* What a call on the Messenger did: the operation, what it returned or
\* raised, and the source line of a raise in the codec.
Outcome(op, ret, at) == [op |-> op, ret |-> ret, at |-> at]

\* ---- the registry of the text codec
\* The classes json_messages defines, and names of classes an application
\* may define.
ModuleClasses == {"MsgIdentify", "MsgJoin", "MsgRetry", "MsgQuit"}
AppClasses == {"DummyMessage", "MsgRejoin"}
Undefined == "undefined"

\* The classes of a process that has imported json_messages and defined
\* the classes apps as subclasses of Message.
ImportedClasses(apps) ==
    [c \in ModuleClasses \cup AppClasses |->
        IF c \in ModuleClasses \cup apps THEN "Message" ELSE Undefined]

\* base.__subclasses__(): the classes whose class statement names base.
Subclasses(cl, base) == {c \in DOMAIN cl : cl[c] = base}

\* Message.register_messages(): class_defs after the call.
register_messages(defs, cl) == defs \cup Subclasses(cl, "Message")

\* cls.register(): class_defs after the call.
register(defs, c) == defs \cup {c}

\* Message.is_registered(key)
is_registered(defs, key) == key \in defs

\* No Messenger is made by the discovery session itself.
NoMessenger ==
    /\ transport = "json"
    /\ feed = "clean"
    /\ read_buffer = <<>>
    /\ write_buffer = <<>>
    /\ closed = FALSE
    /\ inbound = <<>>
    /\ wire_out = <<>>
    /\ sent_bytes = <<>>
    /\ peer_items = <<>>
    /\ got = <<>>
    /\ result = Outcome("init", "None", 0)
    /\ shutdowns = 0
    /\ spc = "idle"
    /\ watchdog = 0
    /\ classes = ImportedClasses({})
    /\ class_defs = {}

\* The state after construction of the BroadcastConnector on every host of
\* `running`, with the configuration attributes set by the application.
Constructed(running, loopers, timeouts, callbacks) ==
    /\ \E lb \in BOOLEAN : allow_loopback = [h \in Hosts |-> lb /\ h \in loopers]
    /\ \E t \in timeouts : timeout = [h \in Hosts |-> t]
    /\ \E f \in callbacks : on_connect = [h \in Hosts |-> f]
    /\ broadcast_enable = [h \in Hosts |-> FALSE]
    /\ local_ip = [h \in Hosts |-> NoAddr]
    /\ sockets = [h \in Hosts |-> [a \in Hosts |-> "none"]]
    /\ lock = [h \in Hosts |-> "free"]
    /\ mpc = [h \in Hosts |-> IF h \in running THEN "init" ELSE "off"]
    /\ bpc = [w \in Threads |-> "idle"]
    /\ upc = [w \in Threads |-> "idle"]
    /\ tpc = [w \in Threads |-> "idle"]
    /\ opc = [w \in Threads |-> "idle"]
    /\ uaddr = [w \in Threads |-> NoAddr]
    /\ half_made = [w \in Threads |-> FALSE]
    /\ taddr = [w \in Threads |-> NoAddr]
    /\ bwait = [w \in Threads |-> 0]
    /\ time_left = [h \in Hosts |-> 0]
    /\ dgram = [w \in Threads |-> <<>>]
    /\ backlog = [w \in Threads |-> <<>>]

\* Host 1 runs the program; host 2 is a remote peer.
Init == Constructed({1}, {1}, {0, TimeoutTicks}, {"none", "noop", "stop"}) /\ NoMessenger

\* The same without loopback and with fewer callbacks, for the checks of
\* what eventually happens.
InitFair == Constructed({1}, {}, {0, TimeoutTicks}, {"none", "stop"}) /\ NoMessenger

\* The program is constructed on host 1, which allows loopback, and is yet
\* to be on host 2, which does not; no timeout, and no callback stops a
\* session.
InitPair ==
    /\ Constructed({1}, {1}, {0}, {"noop"})
    /\ allow_loopback[1]
    /\ NoMessenger

\* ---------------------------------------------------------------- clock

Dec(n) == IF n > 0 THEN n - 1 ELSE 0

\* Time passes by one tick: every pending timer comes one tick closer.
Tick ==
    /\ (\E w \in Threads : bwait[w] > 0) \/ (\E h \in Hosts : time_left[h] > 0)
    /\ bwait' = [w \in Threads |-> Dec(bwait[w])]
    /\ time_left' = [h \in Hosts |-> Dec(time_left[h])]
    /\ UNCHANGED <<messenger, config, broadcast_enable, local_ip, sockets, lock, mpc,
                   bpc, upc, tpc, opc, attempt, taddr, net>>

\* ------------------------------------------------------- timeout worker

\* A deadline taken one tick too short.
DeadlineEarly(h) == time_left[h] <= 1

\* time.time() >= self._quitting_time
DeadlinePassed(h) == time_left[h] = 0

\* A timeout worker that does not wait for the deadline.
TimeoutExpireAtOnce(w) ==
    /\ opc[w] = "loop"
    /\ broadcast_enable' = [broadcast_enable EXCEPT ![Owner(w)] = FALSE]
    /\ opc' = [opc EXCEPT ![w] = "done"]
    /\ UNCHANGED <<messenger, config, local_ip, sockets, lock, mpc, bpc, upc, tpc,
                   attempt, taddr, timers, net>>

\* _timeout(): while the flag is set and the deadline has not passed the
\* worker sleeps and polls again; otherwise it leaves the loop and clears
\* the flag.
TimeoutExpire(w) ==
    /\ opc[w] = "loop"
    /\ ~broadcast_enable[Owner(w)] \/ DeadlinePassed(Owner(w))
    /\ broadcast_enable' = [broadcast_enable EXCEPT ![Owner(w)] = FALSE]
    /\ opc' = [opc EXCEPT ![w] = "done"]
    /\ UNCHANGED <<messenger, config, local_ip, sockets, lock, mpc, bpc, upc, tpc,
                   attempt, taddr, timers, net>>

\* ---------------------------------------------------------- broadcaster

\* The senders of the sequence q.
Senders(q) == {q[i] : i \in 1..Len(q)}

\* A broadcast that is lost: the queue stays as it was.
DeliveredNowhere(q, w, sender) == q

\* The socket's receive queue holds the senders of the pending datagrams,
\* oldest first (datagrams carry only the marker; a sender's repeat while one
\* of its datagrams is pending is dropped).  sendto(255.255.255.255) reaches
\* every bound UDP socket of the subnet, the sender's own included.  q is
\* the queue of the socket of thread w.
Delivered(q, w, sender) ==
    IF UdpBound(w) /\ sender \notin Senders(q) THEN Append(q, sender) ELSE q

\* __udp_broadcast(): create and configure the socket, set the first send
\* time.
BcastSetup(w) ==
    /\ bpc[w] = "setup"
    /\ bpc' = [bpc EXCEPT ![w] = "loop"]
    /\ bwait' = [bwait EXCEPT ![w] = 0]
    /\ UNCHANGED <<messenger, config, broadcast_enable, local_ip, sockets, lock, mpc,
                   upc, tpc, opc, attempt, taddr, time_left, net>>

\* __udp_broadcast(): socket() or setsockopt() raises.  No handler encloses
\* these calls: the exception ends the thread.
BcastSetupError(w) ==
    /\ bpc[w] = "setup"
    /\ bpc' = [bpc EXCEPT ![w] = "dead"]
    /\ UNCHANGED <<messenger, config, broadcast_enable, local_ip, sockets, lock, mpc,
                   upc, tpc, opc, attempt, taddr, timers, net>>

\* __udp_broadcast(): the while test finds the flag set; the thread sleeps.
BcastSleep(w) ==
    /\ bpc[w] = "loop"
    /\ broadcast_enable[Owner(w)]
    /\ bpc' = [bpc EXCEPT ![w] = "sleep"]
    /\ UNCHANGED <<messenger, config, broadcast_enable, local_ip, sockets, lock, mpc,
                   upc, tpc, opc, attempt, taddr, timers, net>>

\* __udp_broadcast(): after the sleep time.time() >= next_broadcast: send
\* the marker and set the next send time, whatever the flag is by now; back
\* to the while test.
BcastSend(w) ==
    /\ bpc[w] = "sleep"
    /\ bwait[w] = 0
    /\ dgram' = [r \in Threads |-> Delivered(dgram[r], r, Owner(w))]
    /\ bwait' = [bwait EXCEPT ![w] = BroadcastInterval]
    /\ bpc' = [bpc EXCEPT ![w] = "loop"]
    /\ UNCHANGED <<messenger, config, broadcast_enable, local_ip, sockets, lock, mpc,
                   upc, tpc, opc, attempt, taddr, time_left, backlog>>

\* __udp_broadcast(): after the sleep the send time has not come; back to
\* the while test.
BcastWait(w) ==
    /\ bpc[w] = "sleep"
    /\ bwait[w] > 0
    /\ bpc' = [bpc EXCEPT ![w] = "loop"]
    /\ UNCHANGED <<messenger, config, broadcast_enable, local_ip, sockets, lock, mpc,
                   upc, tpc, opc, attempt, taddr, timers, net>>

\* __udp_broadcast(): sendto() raises.  No handler encloses the call: the
\* exception ends the thread.
BcastSendError(w) ==
    /\ bpc[w] = "sleep"
    /\ bwait[w] = 0
    /\ bpc' = [bpc EXCEPT ![w] = "dead"]
    /\ UNCHANGED <<messenger, config, broadcast_enable, local_ip, sockets, lock, mpc,
                   upc, tpc, opc, attempt, taddr, timers, net>>

\* __udp_broadcast(): the while test finds the flag cleared.
BcastExit(w) ==
    /\ bpc[w] = "loop"
    /\ ~broadcast_enable[Owner(w)]
    /\ bpc' = [bpc EXCEPT ![w] = "done"]
    /\ UNCHANGED <<messenger, config, broadcast_enable, local_ip, sockets, lock, mpc,
                   upc, tpc, opc, attempt, taddr, timers, net>>

\* --------------------------------------------------- discovery listener

\* __udp_listen(): create, configure and bind the UDP socket.  bind()
\* succeeds when no other socket of the machine is bound to the port.
UdpSetup(w) ==
    /\ upc[w] = "setup"
    /\ ~UdpOpen(Owner(w))
    /\ upc' = [upc EXCEPT ![w] = "loop"]
    /\ UNCHANGED <<messenger, config, broadcast_enable, local_ip, sockets, lock, mpc,
                   bpc, tpc, opc, attempt, taddr, timers, net>>

\* __udp_listen(): socket(), setsockopt() or bind() raises (the port is in
\* use, or any other error).  No handler encloses these calls: the exception
\* ends the thread.
UdpSetupError(w) ==
    /\ upc[w] = "setup"
    /\ upc' = [upc EXCEPT ![w] = "dead"]
    /\ UNCHANGED <<messenger, config, broadcast_enable, local_ip, sockets, lock, mpc,
                   bpc, tpc, opc, attempt, taddr, timers, net>>

\* __udp_listen(): the while test finds the flag cleared.  The socket goes
\* with the thread.
UdpExit(w) ==
    /\ upc[w] = "loop"
    /\ ~broadcast_enable[Owner(w)]
    /\ upc' = [upc EXCEPT ![w] = "done"]
    /\ dgram' = [dgram EXCEPT ![w] = <<>>]
    /\ UNCHANGED <<messenger, config, broadcast_enable, local_ip, sockets, lock, mpc,
                   bpc, tpc, opc, attempt, taddr, timers, backlog>>

\* recvfrom() raises BlockingIOError: continue; the flag is left alone.
UdpRecvWouldBlock(w) ==
    /\ upc[w] = "loop"
    /\ broadcast_enable[Owner(w)]
    /\ dgram[w] = <<>>
    /\ UNCHANGED vars

\* recvfrom() raises any other exception: logged, the flag is cleared.
UdpRecvError(w) ==
    /\ upc[w] = "loop"
    /\ broadcast_enable[Owner(w)]
    /\ broadcast_enable' = [broadcast_enable EXCEPT ![Owner(w)] = FALSE]
    /\ UNCHANGED <<messenger, config, local_ip, sockets, lock, mpc, bpc, upc, tpc, opc,
                   attempt, taddr, timers, net>>

\* The test without the comparison with the local address.
ShouldConnectAny(h, a) == a \notin addresses(h)

\* The test that decides whether a datagram's sender is connected to.
ShouldConnect(h, a) ==
    /\ a \notin addresses(h)
    /\ (allow_loopback[h] \/ a # local_ip[h])

\* recvfrom() returns the oldest datagram, from address Head(dgram[w]); if
\* the test of line 124 passes, a socket is made for the connection.
UdpRecvDatagram(w) ==
    /\ upc[w] = "loop"
    /\ broadcast_enable[Owner(w)]
    /\ dgram[w] # <<>>
    /\ dgram' = [dgram EXCEPT ![w] = Tail(@)]
    /\ IF ShouldConnect(Owner(w), Head(dgram[w]))
         THEN /\ upc' = [upc EXCEPT ![w] = "connect"]
              /\ uaddr' = [uaddr EXCEPT ![w] = Head(dgram[w])]
              /\ half_made' = [half_made EXCEPT ![w] = TRUE]
         ELSE UNCHANGED <<upc, uaddr, half_made>>
    /\ UNCHANGED <<messenger, config, broadcast_enable, local_ip, sockets, lock, mpc,
                   bpc, tpc, opc, taddr, timers, backlog>>

\* sock.connect() succeeds: the peer's listening socket queues the
\* connection, whose peer address is that of the connecting host.  (A remote
\* peer may or may not be listening; its queue is not seen.)
UdpConnectOk(w) ==
    /\ upc[w] = "connect"
    /\ Remote(uaddr[w]) \/ TcpOpen(uaddr[w])
    /\ backlog' = IF Remote(uaddr[w]) THEN backlog
                  ELSE [backlog EXCEPT ![Listener(uaddr[w])] = Append(@, Owner(w))]
    /\ upc' = [upc EXCEPT ![w] = "lock"]
    /\ half_made' = [half_made EXCEPT ![w] = FALSE]
    /\ UNCHANGED <<messenger, config, broadcast_enable, local_ip, sockets, lock, mpc,
                   bpc, tpc, opc, uaddr, taddr, timers, dgram>>

\* A handler of the failed connect that gives the session up, as the
\* handler of a failed recvfrom() does.
UdpConnectRefusedFatal(w) ==
    /\ upc[w] = "connect"
    /\ Remote(uaddr[w]) \/ ~TcpOpen(uaddr[w])
    /\ half_made' = [half_made EXCEPT ![w] = FALSE]
    /\ upc' = [upc EXCEPT ![w] = "loop"]
    /\ uaddr' = [uaddr EXCEPT ![w] = NoAddr]
    /\ broadcast_enable' = [broadcast_enable EXCEPT ![Owner(w)] = FALSE]
    /\ UNCHANGED <<messenger, config, local_ip, sockets, lock, mpc,
                   bpc, tpc, opc, taddr, timers, net>>

\* sock.connect() raises ConnectionRefusedError, nobody listening on the
\* port: sock.close() (line 132), the error logged, back to the while test.
UdpConnectRefused(w) ==
    /\ upc[w] = "connect"
    /\ Remote(uaddr[w]) \/ ~TcpOpen(uaddr[w])
    /\ half_made' = [half_made EXCEPT ![w] = FALSE]
    /\ upc' = [upc EXCEPT ![w] = "loop"]
    /\ uaddr' = [uaddr EXCEPT ![w] = NoAddr]
    /\ UNCHANGED <<messenger, config, broadcast_enable, local_ip, sockets, lock, mpc,
                   bpc, tpc, opc, taddr, timers, net>>

\* sock.connect() raises for another reason (timed out, unreachable):
\* sock.close() (line 132), the error logged, back to the while test.
UdpConnectError(w) ==
    /\ upc[w] = "connect"
    /\ half_made' = [half_made EXCEPT ![w] = FALSE]
    /\ upc' = [upc EXCEPT ![w] = "loop"]
    /\ uaddr' = [uaddr EXCEPT ![w] = NoAddr]
    /\ UNCHANGED <<messenger, config, broadcast_enable, local_ip, sockets, lock, mpc,
                   bpc, tpc, opc, taddr, timers, net>>

\* ------------------------------------------- PeerTable insert (both workers)

\* __socket_lock.acquire(1): blocks while a thread holds the lock the
\* attribute refers to.
LockFree(h) == lock[h] = "free"

\* An insert without the key test.
KeyNotTested(h, a) == TRUE

\* if address not in self.sockets.keys()
KeyAbsent(h, a) == sockets[h][a] = "none"

\* self.sockets[address] = sock
Insert(h, a, sock) == [sockets EXCEPT ![h][a] = sock]

\* if self.on_connect_function: self.on_connect_function(sock).  The callback
\* of the application either leaves the session alone ("noop") or calls
\* stop_broadcasting() ("stop").
OnConnect(h) ==
    IF on_connect[h] = "stop"
      THEN broadcast_enable' = [broadcast_enable EXCEPT ![h] = FALSE]
      ELSE UNCHANGED broadcast_enable

\* acquire the lock and test the key: the thread now holds the lock and
\* knows whether it will insert.
UdpAcquire(w) ==
    /\ upc[w] = "lock"
    /\ LockFree(Owner(w))
    /\ lock' = [lock EXCEPT ![Owner(w)] = "udp"]
    /\ upc' = [upc EXCEPT ![w] = IF KeyAbsent(Owner(w), uaddr[w]) THEN "insert" ELSE "release"]
    /\ UNCHANGED <<messenger, config, broadcast_enable, local_ip, sockets, mpc, bpc, tpc,
                   opc, attempt, taddr, timers, net>>

\* A release that passes only a stored socket on to the callback.
UdpReleaseStored(w) ==
    /\ upc[w] \in {"insert", "release"}
    /\ sockets' = IF upc[w] = "insert" THEN Insert(Owner(w), uaddr[w], "out") ELSE sockets
    /\ IF LockFree(Owner(w))
         THEN /\ upc' = [upc EXCEPT ![w] = "dead"]
              /\ dgram' = [dgram EXCEPT ![w] = <<>>]
              /\ UNCHANGED lock
         ELSE /\ lock' = [lock EXCEPT ![Owner(w)] = "free"]
              /\ upc' = [upc EXCEPT ![w] = IF upc[w] = "insert" THEN "callback" ELSE "loop"]
              /\ UNCHANGED dgram
    /\ uaddr' = [uaddr EXCEPT ![w] = IF upc[w] = "insert" THEN @ ELSE NoAddr]
    /\ UNCHANGED <<messenger, config, broadcast_enable, local_ip, mpc, bpc, tpc, opc,
                   half_made, taddr, timers, backlog>>

\* insert if the key was absent, then self.__socket_lock.release(), on the
\* lock the attribute refers to now.  If a later connect() has replaced the
\* lock (line 47) and nobody holds the new one, release() raises
\* RuntimeError; no handler encloses the call and the exception ends the
\* thread, whose socket goes with it.
UdpRelease(w) ==
    /\ upc[w] \in {"insert", "release"}
    /\ sockets' = IF upc[w] = "insert" THEN Insert(Owner(w), uaddr[w], "out") ELSE sockets
    /\ IF LockFree(Owner(w))
         THEN /\ upc' = [upc EXCEPT ![w] = "dead"]
              /\ dgram' = [dgram EXCEPT ![w] = <<>>]
              /\ UNCHANGED lock
         ELSE /\ lock' = [lock EXCEPT ![Owner(w)] = "free"]
              /\ upc' = [upc EXCEPT ![w] = "callback"]
              /\ UNCHANGED dgram
    /\ UNCHANGED <<messenger, config, broadcast_enable, local_ip, mpc, bpc, tpc, opc,
                   attempt, taddr, timers, backlog>>

\* the on-connect callback, then back to the while test.
UdpCallback(w) ==
    /\ upc[w] = "callback"
    /\ OnConnect(Owner(w))
    /\ upc' = [upc EXCEPT ![w] = "loop"]
    /\ uaddr' = [uaddr EXCEPT ![w] = NoAddr]
    /\ UNCHANGED <<messenger, config, local_ip, sockets, lock, mpc, bpc, tpc, opc,
                   half_made, taddr, timers, net>>

\* -------------------------------------------------- connection listener

\* __tcp_listen(): create, configure, bind and listen.  bind() succeeds
\* when no other socket of the machine listens on the port.
TcpSetup(w) ==
    /\ tpc[w] = "setup"
    /\ ~TcpOpen(Owner(w))
    /\ tpc' = [tpc EXCEPT ![w] = "loop"]
    /\ UNCHANGED <<messenger, config, broadcast_enable, local_ip, sockets, lock, mpc,
                   bpc, upc, opc, attempt, taddr, timers, net>>

\* __tcp_listen(): socket(), setsockopt(), bind() or listen() raises (the
\* port is in use, or any other error).  No handler encloses these calls:
\* the exception ends the thread.
TcpSetupError(w) ==
    /\ tpc[w] = "setup"
    /\ tpc' = [tpc EXCEPT ![w] = "dead"]
    /\ UNCHANGED <<messenger, config, broadcast_enable, local_ip, sockets, lock, mpc,
                   bpc, upc, opc, attempt, taddr, timers, net>>

\* __tcp_listen(): the while test finds the flag cleared.  The socket goes
\* with the thread.
TcpExit(w) ==
    /\ tpc[w] = "loop"
    /\ ~broadcast_enable[Owner(w)]
    /\ tpc' = [tpc EXCEPT ![w] = "done"]
    /\ backlog' = [backlog EXCEPT ![w] = <<>>]
    /\ UNCHANGED <<messenger, config, broadcast_enable, local_ip, sockets, lock, mpc,
                   bpc, upc, opc, attempt, taddr, timers, dgram>>

\* accept() raises BlockingIOError: pass; the flag is left alone.
TcpAcceptWouldBlock(w) ==
    /\ tpc[w] = "loop"
    /\ broadcast_enable[Owner(w)]
    /\ backlog[w] = <<>>
    /\ UNCHANGED vars

\* accept() raises any other exception: logged, the flag is cleared.
TcpAcceptError(w) ==
    /\ tpc[w] = "loop"
    /\ broadcast_enable[Owner(w)]
    /\ broadcast_enable' = [broadcast_enable EXCEPT ![Owner(w)] = FALSE]
    /\ UNCHANGED <<messenger, config, local_ip, sockets, lock, mpc, bpc, upc, tpc, opc,
                   attempt, taddr, timers, net>>

\* accept() returns the oldest queued connection.
TcpAccept(w) ==
    /\ tpc[w] = "loop"
    /\ broadcast_enable[Owner(w)]
    /\ backlog[w] # <<>>
    /\ taddr' = [taddr EXCEPT ![w] = Head(backlog[w])]
    /\ backlog' = [backlog EXCEPT ![w] = Tail(@)]
    /\ tpc' = [tpc EXCEPT ![w] = "lock"]
    /\ UNCHANGED <<messenger, config, broadcast_enable, local_ip, sockets, lock, mpc,
                   bpc, upc, opc, attempt, timers, dgram>>

\* acquire the lock and test the key.
TcpAcquire(w) ==
    /\ tpc[w] = "lock"
    /\ LockFree(Owner(w))
    /\ lock' = [lock EXCEPT ![Owner(w)] = "tcp"]
    /\ tpc' = [tpc EXCEPT ![w] = IF KeyAbsent(Owner(w), taddr[w]) THEN "insert" ELSE "release"]
    /\ UNCHANGED <<messenger, config, broadcast_enable, local_ip, sockets, mpc, bpc, upc,
                   opc, attempt, taddr, timers, net>>

\* insert if the key was absent, then release the lock the attribute
\* refers to now (RuntimeError if that lock is not held, as in UdpRelease).
TcpRelease(w) ==
    /\ tpc[w] \in {"insert", "release"}
    /\ sockets' = IF tpc[w] = "insert" THEN Insert(Owner(w), taddr[w], "in") ELSE sockets
    /\ IF LockFree(Owner(w))
         THEN /\ tpc' = [tpc EXCEPT ![w] = "dead"]
              /\ backlog' = [backlog EXCEPT ![w] = <<>>]
              /\ UNCHANGED lock
         ELSE /\ lock' = [lock EXCEPT ![Owner(w)] = "free"]
              /\ tpc' = [tpc EXCEPT ![w] = "callback"]
              /\ UNCHANGED backlog
    /\ UNCHANGED <<messenger, config, broadcast_enable, local_ip, mpc, bpc, upc, opc,
                   attempt, taddr, timers, dgram>>

\* the on-connect callback, then back to the while test.
TcpCallback(w) ==
    /\ tpc[w] = "callback"
    /\ OnConnect(Owner(w))
    /\ tpc' = [tpc EXCEPT ![w] = "loop"]
    /\ taddr' = [taddr EXCEPT ![w] = NoAddr]
    /\ UNCHANGED <<messenger, config, local_ip, sockets, lock, mpc, bpc, upc, opc,
                   attempt, timers, net>>

\* ---------------------------------------------------------- remote peer

\* A remote peer broadcasts the marker: it reaches the bound UDP socket of h.
PeerBroadcast(a, h) ==
    /\ Remote(a)
    /\ UdpOpen(h)
    /\ a \notin Senders(dgram[Receiver(h)])
    /\ dgram' = [dgram EXCEPT ![Receiver(h)] = Append(@, a)]
    /\ UNCHANGED <<messenger, config, broadcast_enable, local_ip, sockets, lock, mpc,
                   bpc, upc, tpc, opc, attempt, taddr, timers, backlog>>

\* A remote peer connects to the connection port of h (it makes one
\* connection attempt at a time, as the discovery listener does).
PeerConnect(a, h) ==
    /\ Remote(a)
    /\ TcpOpen(h)
    /\ a \notin Senders(backlog[Listener(h)])
    /\ backlog' = [backlog EXCEPT ![Listener(h)] = Append(@, a)]
    /\ UNCHANGED <<messenger, config, broadcast_enable, local_ip, sockets, lock, mpc,
                   bpc, upc, tpc, opc, attempt, taddr, timers, dgram>>

\* ---------------------------------------------------------- main thread

\* Thread.start() of a new thread of the kind whose positions are pc, on
\* host h: the attribute of the BroadcastConnector refers to the new thread
\* (lines 49-51, 58), which is at position `at`; a thread of that kind which
\* an earlier connect() started and which still runs goes on as Former(h).
Started(pc, h, at) ==
    IF Alive(pc[h]) THEN [pc EXCEPT ![Former(h)] = pc[h], ![h] = at]
                    ELSE [pc EXCEPT ![h] = at]

\* A local variable or the socket of the threads of that kind, f: it stays
\* with the thread that goes on; the new thread starts with `fresh`.
Kept(f, pc, h, fresh) ==
    IF Alive(pc[h]) THEN [f EXCEPT ![Former(h)] = f[h], ![h] = fresh] ELSE f

\* connect() -> _make_connections(), lines 42-51: set the flag, resolve the
\* local address, create the lock and the thread objects.
Start(h) ==
    /\ mpc[h] = "init"
    /\ broadcast_enable' = [broadcast_enable EXCEPT ![h] = TRUE]
    /\ local_ip' = [local_ip EXCEPT ![h] = h]
    /\ lock' = [lock EXCEPT ![h] = "free"]
    /\ mpc' = [mpc EXCEPT ![h] = "made"]
    /\ UNCHANGED <<messenger, config, sockets, bpc, upc, tpc, opc, attempt, taddr,
                   timers, net>>

\* _make_connections(): socket() or connect() of lines 43-44 raises (no
\* route); the flag is set already, and the exception leaves connect().
StartError(h) ==
    /\ mpc[h] = "init"
    /\ broadcast_enable' = [broadcast_enable EXCEPT ![h] = TRUE]
    /\ mpc' = [mpc EXCEPT ![h] = "raised"]
    /\ UNCHANGED <<messenger, config, local_ip, sockets, lock, bpc, upc, tpc, opc,
                   attempt, taddr, timers, net>>

\* Line 53: start() returns when the broadcaster runs.
StartBroadcaster(h) ==
    /\ mpc[h] = "made"
    /\ bpc' = Started(bpc, h, "setup")
    /\ bwait' = Kept(bwait, bpc, h, 0)
    /\ mpc' = [mpc EXCEPT ![h] = "started_broadcast"]
    /\ UNCHANGED <<messenger, config, broadcast_enable, local_ip, sockets, lock,
                   upc, tpc, opc, attempt, taddr, time_left, net>>

\* Line 54: start() returns when the discovery listener runs.
StartUdpListener(h) ==
    /\ mpc[h] = "started_broadcast"
    /\ upc' = Started(upc, h, "setup")
    /\ uaddr' = Kept(uaddr, upc, h, NoAddr)
    /\ half_made' = Kept(half_made, upc, h, FALSE)
    /\ dgram' = Kept(dgram, upc, h, <<>>)
    /\ mpc' = [mpc EXCEPT ![h] = "started_udp"]
    /\ UNCHANGED <<messenger, config, broadcast_enable, local_ip, sockets, lock,
                   bpc, tpc, opc, taddr, timers, backlog>>

\* Line 55: start() returns when the connection listener runs.  Without a
\* timeout the test of line 56 fails and connect() goes on to join_threads().
StartTcpListener(h) ==
    /\ mpc[h] = "started_udp"
    /\ tpc' = Started(tpc, h, "setup")
    /\ taddr' = Kept(taddr, tpc, h, NoAddr)
    /\ backlog' = Kept(backlog, tpc, h, <<>>)
    /\ mpc' = [mpc EXCEPT ![h] = IF timeout[h] # 0 THEN "started_tcp" ELSE "join"]
    /\ UNCHANGED <<messenger, config, broadcast_enable, local_ip, sockets, lock,
                   bpc, upc, opc, attempt, timers, dgram>>

\* Lines 57-59, with a timeout configured: the deadline is taken from the
\* clock as it is now and the timeout worker is started; then connect() goes
\* on to join_threads().
StartTimeout(h) ==
    /\ mpc[h] = "started_tcp"
    /\ time_left' = [time_left EXCEPT ![h] = timeout[h]]
    /\ opc' = Started(opc, h, "loop")
    /\ mpc' = [mpc EXCEPT ![h] = "join"]
    /\ UNCHANGED <<messenger, config, broadcast_enable, local_ip, sockets, lock,
                   bpc, upc, tpc, attempt, taddr, bwait, net>>

\* Every thread join_threads() joins has exited.
WorkersExited(h) ==
    /\ Exited(bpc[h])
    /\ Exited(upc[h])
    /\ Exited(tpc[h])
    /\ (opc[h] # "idle" => Exited(opc[h]))

\* join_threads(): every join has returned.
JoinReturn(h) ==
    /\ mpc[h] = "join"
    /\ WorkersExited(h)
    /\ mpc' = [mpc EXCEPT ![h] = "returned"]
    /\ UNCHANGED <<messenger, config, broadcast_enable, local_ip, sockets, lock, bpc,
                   upc, tpc, opc, attempt, taddr, timers, net>>

\* join_threads(): KeyboardInterrupt inside the try block.
JoinInterrupted(h) ==
    /\ mpc[h] = "join"
    /\ broadcast_enable' = [broadcast_enable EXCEPT ![h] = FALSE]
    /\ mpc' = [mpc EXCEPT ![h] = "interrupted"]
    /\ UNCHANGED <<messenger, config, local_ip, sockets, lock, bpc, upc, tpc, opc,
                   attempt, taddr, timers, net>>

\* stop_broadcasting(), called from a thread of the application.
StopBroadcasting(h) ==
    /\ broadcast_enable' = [broadcast_enable EXCEPT ![h] = FALSE]
    /\ UNCHANGED <<messenger, config, local_ip, sockets, lock, mpc, bpc, upc, tpc, opc,
                   attempt, taddr, timers, net>>

\* The steps of the program and of the network when nothing fails.
Run ==
    \/ Tick
    \/ \E h \in Hosts : Start(h)
    \/ \E h \in Hosts : StartBroadcaster(h)
    \/ \E h \in Hosts : StartUdpListener(h)
    \/ \E h \in Hosts : StartTcpListener(h)
    \/ \E w \in Threads : BcastSetup(w)
    \/ \E w \in Threads : BcastSleep(w)
    \/ \E w \in Threads : BcastSend(w)
    \/ \E w \in Threads : BcastWait(w)
    \/ \E w \in Threads : UdpSetup(w)
    \/ \E w \in Threads : UdpRecvWouldBlock(w)
    \/ \E w \in Threads : UdpRecvDatagram(w)
    \/ \E w \in Threads : UdpConnectOk(w)
    \/ \E w \in Threads : UdpConnectRefused(w)
    \/ \E w \in Threads : UdpAcquire(w)
    \/ \E w \in Threads : UdpRelease(w)
    \/ \E w \in Threads : UdpCallback(w)
    \/ \E w \in Threads : TcpSetup(w)
    \/ \E w \in Threads : TcpAcceptWouldBlock(w)
    \/ \E w \in Threads : TcpAccept(w)
    \/ \E w \in Threads : TcpAcquire(w)
    \/ \E w \in Threads : TcpRelease(w)
    \/ \E w \in Threads : TcpCallback(w)

\* The timeout, and stopping: by the application, the timeout, a signal, or
\* a socket error.
Halt ==
    \/ \E h \in Hosts : StartError(h)
    \/ \E h \in Hosts : StartTimeout(h)
    \/ \E h \in Hosts : JoinReturn(h)
    \/ \E h \in Hosts : JoinInterrupted(h)
    \/ \E h \in Hosts : StopBroadcasting(h)
    \/ \E w \in Threads : TimeoutExpire(w)
    \/ \E w \in Threads : BcastExit(w)
    \/ \E w \in Threads : UdpExit(w)
    \/ \E w \in Threads : TcpExit(w)
    \/ \E w \in Threads : BcastSetupError(w)
    \/ \E w \in Threads : BcastSendError(w)
    \/ \E w \in Threads : UdpSetupError(w)
    \/ \E w \in Threads : UdpRecvError(w)
    \/ \E w \in Threads : UdpConnectError(w)
    \/ \E w \in Threads : TcpSetupError(w)
    \/ \E w \in Threads : TcpAcceptError(w)

\* The traffic of a remote peer.
Peer ==
    \/ \E a, h \in Hosts : PeerBroadcast(a, h)
    \/ \E a, h \in Hosts : PeerConnect(a, h)

Next == Run \/ Halt \/ Peer

\* One session and a remote peer; everything may fail.
Spec == Init /\ [][Next]_vars

\* Every thread that can take a step eventually takes one; time passes.
\* (Each thread of the program is scheduled; connect() returns within
\* tcp_connect_timeout; the callback returns.)  The remote peer, the
\* application's stop, the signal and the socket errors owe nothing.
ThreadsRun ==
    /\ WF_vars(Tick)
    /\ \A h \in Hosts :
        /\ WF_vars(Start(h) \/ StartBroadcaster(h) \/ StartUdpListener(h)
                   \/ StartTcpListener(h) \/ StartTimeout(h))
        /\ WF_vars(JoinReturn(h))
    /\ \A w \in Threads :
        /\ WF_vars(TimeoutExpire(w))
        /\ WF_vars(BcastSetup(w) \/ BcastSleep(w) \/ BcastSend(w) \/ BcastWait(w)
                   \/ BcastExit(w))
        /\ WF_vars(UdpSetup(w) \/ UdpExit(w) \/ UdpRecvDatagram(w)
                   \/ UdpConnectOk(w) \/ UdpConnectRefused(w)
                   \/ UdpAcquire(w) \/ UdpRelease(w) \/ UdpCallback(w))
        /\ WF_vars(TcpSetup(w) \/ TcpExit(w) \/ TcpAccept(w)
                   \/ TcpAcquire(w) \/ TcpRelease(w) \/ TcpCallback(w))

\* One session and a remote peer, every thread scheduled.
FairSpec == InitFair /\ [][Next]_vars /\ ThreadsRun

\* The program is made ready on host h, BroadcastConnector(): here, once
\* the session of the other host has found itself and its listeners poll.
Launch(h) ==
    /\ mpc[h] = "off"
    /\ \E g \in Hosts \ {h} :
          sockets[g][g] # "none" /\ upc[g] = "loop" /\ tpc[g] = "loop" /\ backlog[g] = <<>>
    /\ mpc' = [mpc EXCEPT ![h] = "init"]
    /\ UNCHANGED <<messenger, config, broadcast_enable, local_ip, sockets, lock,
                   bpc, upc, tpc, opc, attempt, taddr, timers, net>>

\* Two sessions on the subnet, one with and one without loopback, the
\* second started when the first has found itself; nothing fails and nobody
\* stops.
PairSpec ==
    /\ InitPair
    /\ [][Run \/ \E h \in Hosts : Launch(h)]_vars
    /\ ThreadsRun
    /\ \A h \in Hosts : WF_vars(Launch(h))

\* A session with a timeout that no peer reaches: with loopback allowed its
\* own broadcasts make it connect to itself, and the callback may stop it;
\* the application, a signal and the socket errors may stop it too.  Every
\* thread is scheduled.
InitTimed == Constructed({1}, {1}, {TimeoutTicks}, {"none", "stop"}) /\ NoMessenger
TimedSpec == InitTimed /\ [][Run \/ Halt]_vars /\ ThreadsRun

\* ------------------------------------------------ sessions one after another
\* A process on the machine of h connects to the connection port of h: the
\* peer address of the connection is the local address of h.
LocalConnect(h) ==
    /\ TcpOpen(h)
    /\ local_ip[h] \notin Senders(backlog[Listener(h)])
    /\ backlog' = [backlog EXCEPT ![Listener(h)] = Append(@, local_ip[h])]
    /\ UNCHANGED <<messenger, config, broadcast_enable, local_ip, sockets, lock, mpc,
                   bpc, upc, tpc, opc, attempt, taddr, timers, dgram>>

\* The bound on the threads of earlier calls: of each kind at most one
\* thread that an earlier connect() started runs beside the thread the
\* attribute refers to.  connect() is not called a further time while a
\* thread would be left without a place.
Room(h) == \A pc \in {bpc, upc, tpc, opc} : ~Alive(pc[h]) \/ ~Alive(pc[Former(h)])

\* connect() is called again on a BroadcastConnector, by the thread whose
\* earlier call has returned or raised; connect() itself tests nothing.
\* _make_connections(), lines 42-51, as in Start: the flag is set again, the
\* lock is replaced by a new one; `sockets`, an attribute of the class, is
\* not assigned; threads of the earlier call that have not ended run on.
StartAgain(h) ==
    /\ mpc[h] \in {"returned", "interrupted", "raised"}
    /\ Room(h)
    /\ broadcast_enable' = [broadcast_enable EXCEPT ![h] = TRUE]
    /\ local_ip' = [local_ip EXCEPT ![h] = h]
    /\ lock' = [lock EXCEPT ![h] = "free"]
    /\ mpc' = [mpc EXCEPT ![h] = "made"]
    /\ UNCHANGED <<messenger, config, sockets, bpc, upc, tpc, opc, attempt, taddr,
                   timers, net>>

\* The same with socket() or connect() of lines 43-44 raising.
StartAgainError(h) ==
    /\ mpc[h] \in {"returned", "interrupted", "raised"}
    /\ broadcast_enable' = [broadcast_enable EXCEPT ![h] = TRUE]
    /\ mpc' = [mpc EXCEPT ![h] = "raised"]
    /\ UNCHANGED <<messenger, config, local_ip, sockets, lock, bpc, upc, tpc, opc,
                   attempt, taddr, timers, net>>

\* Sessions one after another on the same object, each ended by the
\* callback of an accepted connection (which calls stop_broadcasting()) or
\* by a signal; a remote peer and a process of the same machine connect to
\* them.  A port still in use fails the bind() of a new listener and the
\* look-up of the local address may fail; nothing else does.  The sessions
\* are followed through the connections they accept: their broadcasters
\* and discovery listeners start and stop but no datagram is sent.
InitSessions == Constructed({1}, {}, {0}, {"stop"}) /\ NoMessenger
Sessions ==
    \/ \E h \in Hosts : Start(h)
    \/ \E h \in Hosts : StartBroadcaster(h)
    \/ \E h \in Hosts : StartUdpListener(h)
    \/ \E h \in Hosts : StartTcpListener(h)
    \/ \E h \in Hosts : JoinReturn(h)
    \/ \E h \in Hosts : JoinInterrupted(h)
    \/ \E w \in Threads : BcastSetup(w)
    \/ \E w \in Threads : BcastExit(w)
    \/ \E w \in Threads : UdpSetup(w)
    \/ \E w \in Threads : UdpSetupError(w)
    \/ \E w \in Threads : UdpExit(w)
    \/ \E w \in Threads : TcpSetup(w)
    \/ \E w \in Threads : TcpSetupError(w)
    \/ \E w \in Threads : TcpAccept(w)
    \/ \E w \in Threads : TcpAcquire(w)
    \/ \E w \in Threads : TcpRelease(w)
    \/ \E w \in Threads : TcpCallback(w)
    \/ \E w \in Threads : TcpExit(w)
    \/ \E a, h \in Hosts : PeerConnect(a, h)
    \/ \E h \in Hosts : LocalConnect(h)
    \/ \E h \in Hosts : StartAgain(h)
    \/ \E h \in Hosts : StartAgainError(h)
SessionsSpec == InitSessions /\ [][Sessions]_vars

\* ======================================================= Part II: Messenger
\* ------------------------------------------------------------------ bytes
\* ord(): the byte value of the ASCII characters the model's messages use.
Ord ==
    ("\n" :> 10) @@ (" " :> 32) @@ ("\"" :> 34) @@ ("," :> 44) @@ ("-" :> 45)
    @@ ("0" :> 48) @@ ("1" :> 49) @@ ("2" :> 50) @@ ("5" :> 53)
    @@ (":" :> 58) @@ ("@" :> 64) @@ ("D" :> 68) @@ ("I" :> 73) @@ ("J" :> 74) @@ ("M" :> 77)
    @@ ("N" :> 78) @@ ("Q" :> 81) @@ ("R" :> 82) @@ ("[" :> 91) @@ ("]" :> 93)
    @@ ("a" :> 97) @@ ("b" :> 98) @@ ("d" :> 100) @@ ("e" :> 101) @@ ("f" :> 102)
    @@ ("g" :> 103) @@ ("h" :> 104) @@ ("i" :> 105) @@ ("j" :> 106)
    @@ ("l" :> 108)
    @@ ("m" :> 109) @@ ("n" :> 110) @@ ("o" :> 111) @@ ("p" :> 112)
    @@ ("r" :> 114) @@ ("s" :> 115) @@ ("t" :> 116) @@ ("u" :> 117)
    @@ ("x" :> 120) @@ ("y" :> 121) @@ ("{" :> 123) @@ ("}" :> 125)

\* str.encode(): the bytes of a string given as its characters.
Bytes(chars) == [i \in 1..Len(chars) |-> Ord[chars[i]]]

\* b"".join(seqs)
RECURSIVE Concat(_)
Concat(seqs) == IF seqs = <<>> THEN <<>> ELSE Head(seqs) \o Concat(Tail(seqs))

\* s[n:] and s[:n] for 0 <= n.
Drop(s, n) == IF n >= Len(s) THEN <<>> ELSE SubSeq(s, n + 1, Len(s))
Take(s, n) == SubSeq(s, 1, IF n < Len(s) THEN n ELSE Len(s))

\* bytes.find(b): 0-based index of the first b in s, -1 if none.
Find(s, b) ==
    IF \E i \in 1..Len(s) : s[i] = b
      THEN (CHOOSE i \in 1..Len(s) : s[i] = b /\ \A j \in 1..(i - 1) : s[j] # b) - 1
      ELSE -1

\* ------------------------------------------------------------------- JSON
\* JSON values: [t |-> "str", s |-> bytes], [t |-> "num", n |-> Int],
\* [t |-> "lit", v |-> "true" | "false" | "null"], [t |-> "arr", e |-> <<values>>],
\* [t |-> "obj", m |-> <<<<key bytes, value>>, ...>>] in insertion order.
JStr(chars) == [t |-> "str", s |-> Bytes(chars)]
JNum(n) == [t |-> "num", n |-> n]
JArr(e) == [t |-> "arr", e |-> e]
JObj(m) == [t |-> "obj", m |-> m]

Literals ==
    << <<"true", Bytes(<<"t", "r", "u", "e">>)>>,
       <<"false", Bytes(<<"f", "a", "l", "s", "e">>)>>,
       <<"null", Bytes(<<"n", "u", "l", "l">>)>> >>

RECURSIVE Digits(_)
Digits(n) ==
    IF n < 0 THEN <<45>> \o Digits(-n)
    ELSE IF n < 10 THEN <<48 + n>>
    ELSE Digits(n \div 10) \o <<48 + (n % 10)>>

RECURSIVE Dumps(_), DumpsElems(_), DumpsMembers(_)
\* json.dumps(v, separators=(',', ':'))
Dumps(v) ==
    CASE v.t = "str" -> <<34>> \o v.s \o <<34>>
      [] v.t = "num" -> Digits(v.n)
      [] v.t = "lit" -> (CHOOSE l \in {Literals[i] : i \in 1..3} : l[1] = v.v)[2]
      [] v.t = "arr" -> <<91>> \o DumpsElems(v.e) \o <<93>>
      [] v.t = "obj" -> <<123>> \o DumpsMembers(v.m) \o <<125>>
DumpsElems(e) ==
    IF e = <<>> THEN <<>>
    ELSE IF Len(e) = 1 THEN Dumps(e[1])
    ELSE Dumps(e[1]) \o <<44>> \o DumpsElems(Tail(e))
DumpsMembers(m) ==
    IF m = <<>> THEN <<>>
    ELSE LET one == <<34>> \o m[1][1] \o <<34, 58>> \o Dumps(m[1][2])
         IN IF Len(m) = 1 THEN one ELSE one \o <<44>> \o DumpsMembers(Tail(m))

Fail == [ok |-> FALSE]
IsDigit(b) == b >= 48 /\ b <= 57
IsSpace(b) == b \in {32, 9, 10, 13}

\* The first index from i on that holds no whitespace (Len(bs) + 1 if none).
Skip(bs, i) ==
    CHOOSE j \in i..(Len(bs) + 1) :
        /\ \A k \in i..(j - 1) : IsSpace(bs[k])
        /\ (j > Len(bs) \/ ~IsSpace(bs[j]))

\* dict[key] = value on an insertion-ordered dict.
SetItem(m, key, value) ==
    IF \E i \in 1..Len(m) : m[i][1] = key
      THEN [i \in 1..Len(m) |-> IF m[i][1] = key THEN <<key, value>> ELSE m[i]]
      ELSE Append(m, <<key, value>>)

\* A string literal starting at i: the closing quote is the next quote;
\* the characters between are printable and none is a backslash.
ParseString(bs, i) ==
    IF i > Len(bs) \/ bs[i] # 34 THEN Fail
    ELSE IF ~\E j \in (i + 1)..Len(bs) : bs[j] = 34 THEN Fail
    ELSE LET j == CHOOSE j \in (i + 1)..Len(bs) :
                     bs[j] = 34 /\ \A k \in (i + 1)..(j - 1) : bs[k] # 34
         IN IF \E k \in (i + 1)..(j - 1) : bs[k] < 32 \/ bs[k] = 92 THEN Fail
            ELSE [ok |-> TRUE, v |-> [t |-> "str", s |-> SubSeq(bs, i + 1, j - 1)],
                  next |-> j + 1]

RECURSIVE NumVal(_)
NumVal(ds) ==
    IF ds = <<>> THEN 0
    ELSE 10 * NumVal(SubSeq(ds, 1, Len(ds) - 1)) + (ds[Len(ds)] - 48)

\* An integer literal starting at i: digits without a leading zero.
ParseNumber(bs, i) ==
    LET j == CHOOSE j \in i..(Len(bs) + 1) :
                 /\ \A k \in i..(j - 1) : IsDigit(bs[k])
                 /\ (j > Len(bs) \/ ~IsDigit(bs[j]))
    IN IF j = i \/ (j > i + 1 /\ bs[i] = 48) THEN Fail
       ELSE [ok |-> TRUE, v |-> [t |-> "num", n |-> NumVal(SubSeq(bs, i, j - 1))],
             next |-> j]

\* true, false or null starting at i.
ParseLiteral(bs, i) ==
    LET hits == {n \in 1..3 :
                    /\ i + Len(Literals[n][2]) - 1 <= Len(bs)
                    /\ SubSeq(bs, i, i + Len(Literals[n][2]) - 1) = Literals[n][2]}
    IN IF hits = {} THEN Fail
       ELSE LET n == CHOOSE n \in hits : TRUE
            IN [ok |-> TRUE, v |-> [t |-> "lit", v |-> Literals[n][1]],
                next |-> i + Len(Literals[n][2])]

RECURSIVE ParseValue(_, _), ParseElems(_, _, _), ParseMembers(_, _, _)
\* The value that starts at the first non-blank position from i0 on.
ParseValue(bs, i0) ==
    LET i == Skip(bs, i0)
    IN IF i > Len(bs) THEN Fail
       ELSE CASE bs[i] = 34 -> ParseString(bs, i)
              [] IsDigit(bs[i]) -> ParseNumber(bs, i)
              [] bs[i] = 45 ->
                   LET r == ParseNumber(bs, i + 1)
                   IN IF r.ok THEN [r EXCEPT !.v.n = -r.v.n] ELSE Fail
              [] bs[i] = 91 ->
                   IF Skip(bs, i + 1) <= Len(bs) /\ bs[Skip(bs, i + 1)] = 93
                     THEN [ok |-> TRUE, v |-> [t |-> "arr", e |-> <<>>],
                           next |-> Skip(bs, i + 1) + 1]
                     ELSE ParseElems(bs, i + 1, <<>>)
              [] bs[i] = 123 ->
                   IF Skip(bs, i + 1) <= Len(bs) /\ bs[Skip(bs, i + 1)] = 125
                     THEN [ok |-> TRUE, v |-> [t |-> "obj", m |-> <<>>],
                           next |-> Skip(bs, i + 1) + 1]
                     ELSE ParseMembers(bs, i + 1, <<>>)
              [] OTHER -> ParseLiteral(bs, i)
\* The elements of an array from i on, after those of acc.
ParseElems(bs, i, acc) ==
    LET r == ParseValue(bs, i)
        n == IF r.ok THEN Skip(bs, r.next) ELSE 0
    IN IF ~r.ok \/ n > Len(bs) THEN Fail
       ELSE IF bs[n] = 93
              THEN [ok |-> TRUE, v |-> [t |-> "arr", e |-> Append(acc, r.v)],
                    next |-> n + 1]
       ELSE IF bs[n] = 44 THEN ParseElems(bs, n + 1, Append(acc, r.v))
       ELSE Fail
\* The members of an object from i on, after those of acc; a repeated key
\* keeps its place and takes the later value.
ParseMembers(bs, i, acc) ==
    LET k == ParseString(bs, Skip(bs, i))
        c == IF k.ok THEN Skip(bs, k.next) ELSE 0
    IN IF ~k.ok \/ c > Len(bs) \/ bs[c] # 58 THEN Fail
       ELSE LET r == ParseValue(bs, c + 1)
                n == IF r.ok THEN Skip(bs, r.next) ELSE 0
            IN IF ~r.ok \/ n > Len(bs) THEN Fail
               ELSE IF bs[n] = 125
                      THEN [ok |-> TRUE,
                            v |-> [t |-> "obj", m |-> SetItem(acc, k.v.s, r.v)],
                            next |-> n + 1]
               ELSE IF bs[n] = 44
                      THEN ParseMembers(bs, n + 1, SetItem(acc, k.v.s, r.v))
               ELSE Fail

\* bytes.decode('utf-8') succeeds: the model's bytes are ASCII or 0xFF, and
\* 0xFF starts no UTF-8 sequence.
Utf8Ok(bs) == \A i \in 1..Len(bs) : bs[i] < 128

\* json.loads(bs.decode('utf-8')) on the grammar of strings without escapes,
\* integers, literals, arrays and objects:
\* [ok |-> TRUE, v |-> value], or [ok |-> FALSE] where it raises.
Loads(bs) ==
    IF ~Utf8Ok(bs) THEN Fail
    ELSE LET r == ParseValue(bs, 1)
         IN IF r.ok /\ Skip(bs, r.next) = Len(bs) + 1
              THEN [ok |-> TRUE, v |-> r.v]
              ELSE Fail

\* --------------------------------------------------------------- messages
\* A message object: its class and its __dict__ in insertion order.
Msg(cls, attrs) == [cls |-> cls, attrs |-> attrs]
NoMsg == Msg("None", <<>>)

\* getpass.getuser() and socket.gethostname() on the machine of the model.
UserName == Bytes(<<"u">>)
HostName == Bytes(<<"h">>)
KeyUsername == Bytes(<<"u", "s", "e", "r", "n", "a", "m", "e">>)
KeyHostname == Bytes(<<"h", "o", "s", "t", "n", "a", "m", "e">>)

\* What a peel_from_buffer call yields: a result pair, or an exception and
\* the source line that raises it.
Peeled(msg, byte_len) == [exc |-> "none", at |-> 0, msg |-> msg, byte_len |-> byte_len]
Raised(exc, at) == [exc |-> exc, at |-> at, msg |-> NoMsg, byte_len |-> 0]

\* ---- the text codec (json_messages)
\* subclass.__name__, the key a class is registered under.
ClassName ==
    [MsgIdentify  |-> Bytes(<<"M", "s", "g", "I", "d", "e", "n", "t", "i", "f", "y">>),
     MsgJoin      |-> Bytes(<<"M", "s", "g", "J", "o", "i", "n">>),
     MsgRetry     |-> Bytes(<<"M", "s", "g", "R", "e", "t", "r", "y">>),
     MsgQuit      |-> Bytes(<<"M", "s", "g", "Q", "u", "i", "t">>),
     DummyMessage |-> Bytes(<<"D", "u", "m", "m", "y", "M", "e", "s", "s", "a", "g", "e">>),
     MsgRejoin    |-> Bytes(<<"M", "s", "g", "R", "e", "j", "o", "i", "n">>)]

\* cls(**kwargs): Message.__init__ sets the keyword arguments in order, then
\* MsgIdentify.__init__ adds the machine's user and host where missing.
JsonInit(cls, kwargs) ==
    LET has(key) == \E i \in 1..Len(kwargs) : kwargs[i][1] = key
        user == IF has(KeyUsername) THEN <<>>
                ELSE << <<KeyUsername, [t |-> "str", s |-> UserName]>> >>
        host == IF has(KeyHostname) THEN <<>>
                ELSE << <<KeyHostname, [t |-> "str", s |-> HostName]>> >>
    IN IF cls = "MsgIdentify"
         THEN Msg(cls, kwargs \o user \o host)
         ELSE Msg(cls, kwargs)

\* cls(): the instance peel_from_buffer makes before decoding.
JsonNew(cls) == JsonInit(cls, <<>>)

\* Two message objects of the same class with the same attributes.
SameMessage(a, b) ==
    /\ a.cls = b.cls
    /\ {a.attrs[i] : i \in 1..Len(a.attrs)} = {b.attrs[i] : i \in 1..Len(b.attrs)}

\* Message.encoded()
JsonEncoded(m) ==
    Dumps(JArr(<< [t |-> "str", s |-> ClassName[m.cls]], JObj(m.attrs) >>)) \o <<10>>

\* Message.decode_attributes(): setattr for every item, in order.
RECURSIVE SetAttrs(_, _)
SetAttrs(attrs, items) ==
    IF items = <<>> THEN attrs
    ELSE SetAttrs(SetItem(attrs, items[1][1], items[1][2]), Tail(items))

\* The else branch of peel_from_buffer: payload is what json.loads returned.
JsonBuild(payload, pos) ==
    CASE payload.t \in {"num", "lit"} -> Raised("TypeError", 64)
      [] payload.t = "obj" -> Raised("KeyError", 64)
      [] payload.t = "str" ->
           IF payload.s = <<>> THEN Raised("IndexError", 64) ELSE Raised("KeyError", 69)
      [] payload.t = "arr" ->
           IF payload.e = <<>> THEN Raised("IndexError", 64)
           ELSE LET name == payload.e[1]
                    known == {c \in class_defs :
                                 name.t = "str" /\ ClassName[c] = name.s}
                IN IF name.t \in {"arr", "obj"} THEN Raised("TypeError", 64)
                   ELSE IF known = {} THEN Raised("KeyError", 69)
                   ELSE IF Len(payload.e) < 2 THEN Raised("IndexError", 66)
                   ELSE IF payload.e[2].t # "obj" THEN Raised("AttributeError", 114)
                   ELSE LET new == JsonNew(CHOOSE c \in known : TRUE)
                        IN Peeled(Msg(new.cls, SetAttrs(new.attrs, payload.e[2].m)), pos)

\* Message.peel_from_buffer(read_buffer)
JsonPeelFromBuffer(buf) ==
    LET pos == Find(buf, 10)
    IN IF pos > -1
         THEN LET loaded == Loads(Take(buf, pos))
              IN IF loaded.ok THEN JsonBuild(loaded.v, pos) ELSE Peeled(NoMsg, 0)
         ELSE Peeled(NoMsg, 0)

\* ---- the byte codec (byte_messages)
\* Byte_Message.class_defs after the register() calls: code of each class.
ByteClassDefs == [Identify |-> 1, Join |-> 2, Retry |-> 3, Quit |-> 4]

\* cls(): Identify() takes the machine's user and host; the others have no
\* attributes.
ByteNew(cls) ==
    IF cls = "Identify"
      THEN Msg(cls, << <<KeyUsername, [t |-> "str", s |-> UserName]>>,
                       <<KeyHostname, [t |-> "str", s |-> HostName]>> >>)
      ELSE Msg(cls, <<>>)

\* encode(): "username@hostname" for Identify, nothing for the others.
ByteEncode(m) ==
    IF m.cls = "Identify" THEN m.attrs[1][2].s \o <<64>> \o m.attrs[2][2].s ELSE <<>>

\* An encoded() whose length byte counts the data only.
ByteEncodedDataLen(m) ==
    LET encoded_data == ByteEncode(m)
    IN <<Len(encoded_data), ByteClassDefs[m.cls]>> \o encoded_data

\* Byte_Message.encoded()
ByteEncoded(m) ==
    LET encoded_data == ByteEncode(m)
    IN <<Len(encoded_data) + 2, ByteClassDefs[m.cls]>> \o encoded_data

\* bytes.split(b)
RECURSIVE Split(_, _)
Split(s, b) ==
    LET pos == Find(s, b)
    IN IF pos = -1 THEN <<s>> ELSE <<Take(s, pos)>> \o Split(Drop(s, pos + 1), b)

\* decode_data(msg_data): the message with its attributes read from the
\* data, or the exception.
ByteDecodeData(m, msg_data, byte_len) ==
    IF m.cls # "Identify" THEN Peeled(m, byte_len)
    ELSE IF ~Utf8Ok(msg_data) THEN Raised("UnicodeDecodeError", 84)
    ELSE LET parts == Split(msg_data, 64)
         IN IF Len(parts) # 2 THEN Raised("ValueError", 84)
            ELSE Peeled(Msg(m.cls, << <<KeyUsername, [t |-> "str", s |-> parts[1]]>>,
                                      <<KeyHostname, [t |-> "str", s |-> parts[2]]>> >>),
                        byte_len)

\* A peel_from_buffer that does not compare the length byte with the buffer.
BytePeelEager(buf) ==
    IF Len(buf) > 0
      THEN IF Len(buf) < 2 THEN Raised("IndexError", 39)
           ELSE LET known == {c \in DOMAIN ByteClassDefs : ByteClassDefs[c] = buf[2]}
                IN IF known = {} THEN Raised("KeyError", 46)
                   ELSE LET new == ByteNew(CHOOSE c \in known : TRUE)
                        IN IF buf[1] > 2
                             THEN ByteDecodeData(new, Drop(buf, 2), buf[1])
                             ELSE Peeled(new, buf[1])
      ELSE Peeled(NoMsg, 0)

\* A peel_from_buffer that passes over a frame of unknown code.
BytePeelSilent(buf) ==
    IF Len(buf) > 0 /\ Len(buf) >= buf[1]
      THEN IF Len(buf) < 2 THEN Raised("IndexError", 39)
           ELSE LET known == {c \in DOMAIN ByteClassDefs : ByteClassDefs[c] = buf[2]}
                IN IF known = {} THEN Peeled(NoMsg, 0)
                   ELSE LET new == ByteNew(CHOOSE c \in known : TRUE)
                        IN IF buf[1] > 2
                             THEN ByteDecodeData(new, Drop(buf, 2), buf[1])
                             ELSE Peeled(new, buf[1])
      ELSE Peeled(NoMsg, 0)

\* Byte_Message.peel_from_buffer(read_buffer)
BytePeelFromBuffer(buf) ==
    IF Len(buf) > 0 /\ Len(buf) >= buf[1]
      THEN IF Len(buf) < 2 THEN Raised("IndexError", 39)
           ELSE LET known == {c \in DOMAIN ByteClassDefs : ByteClassDefs[c] = buf[2]}
                IN IF known = {} THEN Raised("KeyError", 46)
                   ELSE LET new == ByteNew(CHOOSE c \in known : TRUE)
                        IN IF buf[1] > 2
                             THEN ByteDecodeData(new, Drop(buf, 2), buf[1])
                             ELSE Peeled(new, buf[1])
      ELSE Peeled(NoMsg, 0)

\* ---- the codec a direct caller names: Message of json_messages, or
\* Byte_Message of byte_messages.
encoded(tr, m) == IF tr = "json" THEN JsonEncoded(m) ELSE ByteEncoded(m)
peel_from_buffer(tr, buf) ==
    IF tr = "json" THEN JsonPeelFromBuffer(buf) ELSE BytePeelFromBuffer(buf)

\* ---- the codec of a Messenger
Transports == {"json", "byte"}

\* importlib.import_module("cable_car.%s_messages" % transport):
\* byte_messages imports cable_car.network_messenger, a module the package
\* does not hold, so that its import raises.
import_module(tr) == IF tr = "json" THEN "ok" ELSE "ModuleNotFoundError"

\* -------------------------------------------------------------- Messenger
\* Messenger.buffer_size, the most one recv() returns.
buffer_size == 1024

\* The most items the peer writes, and the most messages passed to send().
MaxItems == 2

Min(a, b) == IF a < b THEN a ELSE b

\* What the peer may write.  Clean: encoded() of messages of registered
\* classes.  Dirty: also lines that are no encoding of such a message.
JsonMessages ==
    { JsonInit("MsgIdentify", << <<KeyHostname, [t |-> "str", s |-> Bytes(<<"x">>)]>> >>),
      JsonInit("MsgJoin", <<>>) }
ByteMessages == {ByteNew("Identify"), ByteNew("Join"), ByteNew("Quit")}

JsonDirt ==
    { Bytes(<<"5", "\n">>),
      Bytes(<<"[", "]", "\n">>),
      Bytes(<<"{", "}", "\n">>),
      Bytes(<<"x", "\n">>),
      <<255, 10>>,
      Bytes(<<"[", "\"", "M", "s", "g", "J", "o", "i", "n", "\"", ",", "5", "]", "\n">>),
      Bytes(<<"[", "\"", "N", "\"", ",", "{", "}", "]", "\n">>) }

\* The items of a feed: the message written (NoMsg for dirt) and its bytes.
Items(fd) ==
    {[msg |-> m, bytes |-> JsonEncoded(m)] : m \in JsonMessages}
    \cup (IF fd = "dirty"
            THEN {[msg |-> NoMsg, bytes |-> b] : b \in JsonDirt}
            ELSE {})

\* Empty buffers and nothing done yet, with the codec one of trs and the
\* feed one of fds; the classes apps are defined besides those of the
\* module, and register_messages() has run; no session running.
Fresh(trs, fds, apps) ==
    /\ Constructed({}, {}, {0}, {"none"})
    /\ transport \in trs
    /\ feed \in fds
    /\ read_buffer = <<>>
    /\ write_buffer = <<>>
    /\ closed = FALSE
    /\ inbound = <<>>
    /\ wire_out = <<>>
    /\ sent_bytes = <<>>
    /\ peer_items = <<>>
    /\ got = <<>>
    /\ result = Outcome("init", "None", 0)
    /\ shutdowns = 0
    /\ spc = "idle"
    /\ watchdog = 0
    /\ classes = ImportedClasses(apps)
    /\ class_defs = register_messages({}, ImportedClasses(apps))

\* Messenger.__init__ on a connected socket: a Messenger is made for the
\* transports whose module imports.
MessengerInit ==
    Fresh({tr \in Transports : import_module(tr) = "ok"}, {"clean", "dirty"}, {})

\* A close() that does not test the closed flag.
closeAgain(is_closed, shut) ==
    IF shut = "ok" THEN [closed |-> TRUE, raised |-> FALSE, calls |-> 1]
    ELSE [closed |-> is_closed, raised |-> TRUE, calls |-> 0]

\* Messenger.close(): shut is what socket.shutdown() does, "ok" or "OSError";
\* calls counts the socket.shutdown() performed.
close(is_closed, shut) ==
    IF is_closed THEN [closed |-> TRUE, raised |-> FALSE, calls |-> 0]
    ELSE IF shut = "ok" THEN [closed |-> TRUE, raised |-> FALSE, calls |-> 1]
    ELSE [closed |-> FALSE, raised |-> TRUE, calls |-> 0]

\* The Messenger and its socket as one value.
State == [read_buffer |-> read_buffer, write_buffer |-> write_buffer,
          closed |-> closed, inbound |-> inbound, wire_out |-> wire_out,
          shutdowns |-> shutdowns]

\* What select(), recv(), send() and shutdown() may do in one xfer()
\* (with an empty write buffer send() is not called, whatever select() says):
\* sel "ok" or "IOError"; r, w the readiness select() reports; rcv "data"
\* (k bytes, none at end of stream) or the exception of recv(); snd "ok"
\* (n bytes accepted) or the exception of send(); shut as in close().
Env(sel, r, rcv, k, w, snd, n, shut) ==
    [sel |-> sel, r |-> r, rcv |-> rcv, k |-> k, w |-> w, snd |-> snd, n |-> n,
     shut |-> shut]

Environments(st) ==
    LET reads ==
            {<<FALSE, "data", 0, "ok">>}
            \cup {<<TRUE, "data", k, "ok">> : k \in 0..Min(Len(st.inbound), buffer_size)}
            \cup {<<TRUE, e, 0, "ok">> :
                     e \in {"BlockingIOError", "BrokenPipeError", "ConnectionResetError"}}
            \cup {<<TRUE, "IOError", 0, s>> : s \in {"ok", "OSError"}}
        writes ==
            IF st.write_buffer = <<>> THEN {<<TRUE, "ok", 0>>}
            ELSE {<<FALSE, "ok", 0>>}
                 \cup {<<TRUE, "ok", n>> : n \in 0..Len(st.write_buffer)}
                 \cup {<<TRUE, e, 0>> : e \in {"BrokenPipeError", "IOError"}}
    IN {Env("IOError", FALSE, "data", 0, FALSE, "ok", 0, s) : s \in {"ok", "OSError"}}
       \cup {Env("ok", rd[1], rd[2], rd[3], wr[1], wr[2], wr[3], rd[4]) :
                rd \in reads, wr \in writes}

\* A send() taken to have written the whole buffer.
UnsentNone(buf, bytes_sent) == <<>>

\* The write buffer after the socket accepted bytes_sent bytes of it.
Unsent(buf, bytes_sent) == Drop(buf, bytes_sent)

\* A read part that takes the end of the stream, recv() returning no bytes,
\* as the loss of the connection.
XferReadEof(st, env) ==
    IF ~env.r THEN [st |-> st, raised |-> FALSE]
    ELSE CASE env.rcv = "data" ->
                [st |-> [st EXCEPT !.read_buffer = @ \o Take(st.inbound, env.k),
                                   !.inbound = Drop(@, env.k),
                                   !.closed = (env.k = 0)],
                 raised |-> FALSE]
           [] env.rcv = "BlockingIOError" -> [st |-> st, raised |-> FALSE]
           [] env.rcv \in {"BrokenPipeError", "ConnectionResetError"} ->
                [st |-> [st EXCEPT !.closed = TRUE], raised |-> FALSE]
           [] env.rcv = "IOError" ->
                LET c == close(st.closed, env.shut)
                IN [st |-> [st EXCEPT !.closed = c.closed,
                                      !.shutdowns = @ + c.calls],
                    raised |-> c.raised]

\* The part of xfer() that reads.
XferRead(st, env) ==
    IF ~env.r THEN [st |-> st, raised |-> FALSE]
    ELSE CASE env.rcv = "data" ->
                [st |-> [st EXCEPT !.read_buffer = @ \o Take(st.inbound, env.k),
                                   !.inbound = Drop(@, env.k)],
                 raised |-> FALSE]
           [] env.rcv = "BlockingIOError" -> [st |-> st, raised |-> FALSE]
           [] env.rcv \in {"BrokenPipeError", "ConnectionResetError"} ->
                [st |-> [st EXCEPT !.closed = TRUE], raised |-> FALSE]
           [] env.rcv = "IOError" ->
                LET c == close(st.closed, env.shut)
                IN [st |-> [st EXCEPT !.closed = c.closed,
                                      !.shutdowns = @ + c.calls],
                    raised |-> c.raised]

\* The part of xfer() that writes.
XferWrite(st, env) ==
    IF env.w /\ Len(st.write_buffer) > 0
      THEN CASE env.snd = "ok" ->
                  [st EXCEPT !.write_buffer = Unsent(@, env.n),
                             !.wire_out = @ \o Take(st.write_buffer, env.n)]
             [] env.snd = "BrokenPipeError" -> [st EXCEPT !.closed = TRUE]
             [] env.snd = "IOError" -> st
      ELSE st

\* Messenger.xfer(): the state after the call and what the call returned or
\* raised.
xfer(st, env) ==
    IF st.closed THEN [st |-> st, ret |-> "False"]
    ELSE IF env.sel = "IOError"
      THEN LET c == close(st.closed, env.shut)
           IN [st |-> [st EXCEPT !.closed = c.closed, !.shutdowns = @ + c.calls],
               ret |-> IF c.raised THEN "OSError" ELSE "UnboundLocalError"]
    ELSE LET rd == XferRead(st, env)
         IN IF rd.raised THEN [st |-> rd.st, ret |-> "OSError"]
            ELSE [st |-> XferWrite(rd.st, env), ret |-> "None"]

\* A get() that leaves the terminator in the buffer.
ConsumedLine(byte_len) == byte_len

\* The number of bytes get() drops for a peeled byte_len.
Consumed(byte_len) == byte_len + 1

\* A get() that throws the read buffer away when it extracts nothing.
GetPeeledDiscarding(buf, p) ==
    IF p.exc # "none"
      THEN [ret |-> p.exc, at |-> p.at, msg |-> NoMsg, read_buffer |-> <<>>]
    ELSE IF p.byte_len # 0
      THEN [ret |-> "Message", at |-> 0, msg |-> p.msg,
            read_buffer |-> Drop(buf, Consumed(p.byte_len))]
    ELSE [ret |-> "None", at |-> 0, msg |-> NoMsg, read_buffer |-> <<>>]

\* The body of get() once peel_from_buffer has yielded p: what get() returns
\* or raises, and the read buffer after.
GetPeeled(buf, p) ==
    IF p.exc # "none"
      THEN [ret |-> p.exc, at |-> p.at, msg |-> NoMsg, read_buffer |-> buf]
    ELSE IF p.byte_len # 0
      THEN [ret |-> "Message", at |-> 0, msg |-> p.msg,
            read_buffer |-> Drop(buf, Consumed(p.byte_len))]
    ELSE [ret |-> "None", at |-> 0, msg |-> NoMsg, read_buffer |-> buf]

\* Messenger.get(): the Message class of the Messenger is that of
\* json_messages.
get(buf) == GetPeeled(buf, JsonPeelFromBuffer(buf))

\* Messenger.send(message): the write buffer after.
send(buf, m) == buf \o JsonEncoded(m)

\* The peer writes one more item; its bytes are in flight to the Messenger.
\* A dirty item is the last one the peer writes.
PeerSend ==
    /\ Len(peer_items) < MaxItems
    /\ \A i \in 1..Len(peer_items) : peer_items[i].msg # NoMsg
    /\ \E item \in Items(feed) :
        /\ peer_items' = Append(peer_items, item)
        /\ inbound' = inbound \o item.bytes
    /\ UNCHANGED <<dvars, setup, read_buffer, write_buffer, closed,
                   wire_out, sent_bytes, got, result, shutdowns, drain>>

\* The application calls xfer().
Xfer ==
    /\ \E x \in {xfer(State, env) : env \in Environments(State)} :
        /\ read_buffer' = x.st.read_buffer
        /\ write_buffer' = x.st.write_buffer
        /\ closed' = x.st.closed
        /\ inbound' = x.st.inbound
        /\ wire_out' = x.st.wire_out
        /\ shutdowns' = x.st.shutdowns
        /\ result' = Outcome("xfer", x.ret, 0)
    /\ UNCHANGED <<dvars, setup, sent_bytes, peer_items, got, drain>>

\* The application calls get().
Get ==
    /\ \E g \in {get(read_buffer)} :
        /\ read_buffer' = g.read_buffer
        /\ got' = IF g.ret = "Message" THEN Append(got, g.msg) ELSE got
        /\ result' = Outcome("get", g.ret, g.at)
    /\ UNCHANGED <<dvars, setup, write_buffer, closed, inbound,
                   wire_out, sent_bytes, peer_items, shutdowns, drain>>

\* The application calls send(message).
Send ==
    /\ Len(sent_bytes) < MaxItems
    /\ \E m \in JsonMessages :
        /\ write_buffer' = send(write_buffer, m)
        /\ sent_bytes' = Append(sent_bytes, JsonEncoded(m))
    /\ result' = Outcome("send", "None", 0)
    /\ UNCHANGED <<dvars, setup, read_buffer, closed, inbound,
                   wire_out, peer_items, got, shutdowns, drain>>

\* The application calls close().
Close ==
    /\ \E shut \in {"ok", "OSError"} :
        LET c == close(closed, shut)
        IN /\ closed' = c.closed
           /\ shutdowns' = shutdowns + c.calls
           /\ result' = Outcome("close", IF c.raised THEN "OSError" ELSE "None", 0)
    /\ UNCHANGED <<dvars, setup, read_buffer, write_buffer, inbound,
                   wire_out, sent_bytes, peer_items, got, drain>>

\* The attempt budget of shutdown(): `watchdog < 100`.
WatchdogLimit == 100

\* The application calls shutdown(): on a closed Messenger it returns at
\* once; otherwise the counter starts at zero and the loop is entered.
ShutdownCall ==
    /\ spc = "idle"
    /\ IF closed
         THEN /\ result' = Outcome("shutdown", "None", 0)
              /\ UNCHANGED drain
         ELSE /\ spc' = "loop"
              /\ watchdog' = 0
              /\ UNCHANGED result
    /\ UNCHANGED <<dvars, setup, read_buffer, write_buffer, closed, inbound,
                   wire_out, sent_bytes, peer_items, got, shutdowns>>

\* One turn of the loop of shutdown(): xfer(), then watchdog += 1.  An
\* exception of xfer() ends the call.
DrainXfer ==
    /\ spc = "loop"
    /\ Len(write_buffer) > 0
    /\ watchdog < WatchdogLimit
    /\ \E x \in {xfer(State, env) : env \in Environments(State)} :
        /\ read_buffer' = x.st.read_buffer
        /\ write_buffer' = x.st.write_buffer
        /\ closed' = x.st.closed
        /\ inbound' = x.st.inbound
        /\ wire_out' = x.st.wire_out
        /\ shutdowns' = x.st.shutdowns
        /\ IF x.ret \in {"None", "False"}
             THEN /\ watchdog' = watchdog + 1
                  /\ UNCHANGED <<spc, result>>
             ELSE /\ result' = Outcome("shutdown", x.ret, 0)
                  /\ spc' = "idle"
                  /\ UNCHANGED watchdog
    /\ UNCHANGED <<dvars, setup, sent_bytes, peer_items, got>>

\* A shutdown() that closes without looking at the write buffer.
DrainCloseEarly ==
    /\ spc = "loop"
    /\ \E shut \in {"ok", "OSError"} :
        LET c == close(closed, shut)
        IN /\ closed' = c.closed
           /\ shutdowns' = shutdowns + c.calls
           /\ result' = Outcome("shutdown", IF c.raised THEN "OSError" ELSE "None", 0)
    /\ spc' = "idle"
    /\ UNCHANGED <<dvars, setup, read_buffer, write_buffer, inbound,
                   wire_out, sent_bytes, peer_items, got, watchdog>>

\* The loop of shutdown() is left: close(), and the call returns or raises
\* what shutdown() of the socket raised.
DrainClose ==
    /\ spc = "loop"
    /\ ~(Len(write_buffer) > 0 /\ watchdog < WatchdogLimit)
    /\ \E shut \in {"ok", "OSError"} :
        LET c == close(closed, shut)
        IN /\ closed' = c.closed
           /\ shutdowns' = shutdowns + c.calls
           /\ result' = Outcome("shutdown", IF c.raised THEN "OSError" ELSE "None", 0)
    /\ spc' = "idle"
    /\ UNCHANGED <<dvars, setup, read_buffer, write_buffer, inbound,
                   wire_out, sent_bytes, peer_items, got, watchdog>>

\* The receiving side: the peer writes, the application polls and reads.
RecvNext == PeerSend \/ Xfer \/ Get \/ Close
RecvSpec == MessengerInit /\ [][RecvNext]_vars

\* The sending side: the application sends and polls.
SendNext == Send \/ Xfer \/ Close
SendSpec == MessengerInit /\ [][SendNext]_vars

\* ------------------------------------------------------- the codecs alone
\* The codec tests' loop: messages are encoded onto one buffer, then
\* peel_from_buffer is called on it and the consumed length is dropped.

\* The messages encoded: one of each registered class, with text and
\* number attributes.
CodecMessages(tr) ==
    IF tr = "json"
      THEN JsonMessages \cup {JsonInit("MsgRetry", << <<Bytes(<<"x">>), JNum(-15)>> >>),
                              JsonInit("MsgQuit", <<>>),
                              JsonInit("DummyMessage", << <<Bytes(<<"a">>), JNum(100)>>,
                                                          <<Bytes(<<"b">>), JNum(200)>> >>)}
      ELSE ByteMessages \cup {ByteNew("Retry")}

\* The tests name the class of either module; no Messenger is made.  The
\* test module of the text codec defines DummyMessage.
CodecInit == Fresh(Transports, {"clean"}, {"DummyMessage"})

\* buff += message.encoded()
Encode ==
    /\ Len(peer_items) < MaxItems
    /\ \E m \in CodecMessages(transport) :
        /\ peer_items' = Append(peer_items, [msg |-> m, bytes |-> encoded(transport, m)])
        /\ read_buffer' = read_buffer \o encoded(transport, m)
    /\ UNCHANGED <<dvars, setup, write_buffer, closed, inbound, wire_out,
                   sent_bytes, got, result, shutdowns, drain>>

\* The length the tests drop after a peel: the terminator is not counted in
\* the byte_len of the text codec.
Advance(tr, byte_len) == IF tr = "json" THEN byte_len + 1 ELSE byte_len

\* What the peel yielded, as the outcome of the call.
PeelOutcome(p) ==
    [op |-> "peel",
     ret |-> IF p.exc # "none" THEN p.exc
             ELSE IF p.msg = NoMsg THEN "None" ELSE "Message",
     at |-> p.at,
     byte_len |-> p.byte_len]

\* msg, byte_len = Message.peel_from_buffer(buff); buff = buff[byte_len:]
\* (buff[byte_len + 1:] for the text codec).
Peel ==
    /\ read_buffer # <<>>
    /\ \E p \in {peel_from_buffer(transport, read_buffer)} :
        /\ result' = PeelOutcome(p)
        /\ got' = IF p.exc = "none" /\ p.msg # NoMsg THEN Append(got, p.msg) ELSE got
        /\ read_buffer' = IF p.exc = "none"
                            THEN Drop(read_buffer, Advance(transport, p.byte_len))
                            ELSE read_buffer
    /\ UNCHANGED <<dvars, setup, write_buffer, closed, inbound, wire_out,
                   sent_bytes, peer_items, shutdowns, drain>>

CodecNext == Encode \/ Peel
CodecSpec == CodecInit /\ [][CodecNext]_vars

\* Closing down: the application sends, polls, closes and drains; while a
\* shutdown() call runs nothing else is called on the Messenger.
\* The messages are MsgJoin, the shortest, which keeps the buffers small.
DrainInit == MessengerInit /\ feed = "clean"

\* The most messages written in each direction before the close.
MaxClosing == 1

\* send(MsgJoin())
ShortSend ==
    /\ Len(sent_bytes) < MaxClosing
    /\ Send
    /\ sent_bytes' = Append(sent_bytes, JsonEncoded(JsonInit("MsgJoin", <<>>)))

\* The peer writes the encoding of a MsgJoin.
ShortPeerSend ==
    /\ Len(peer_items) < MaxClosing
    /\ PeerSend
    /\ peer_items'[Len(peer_items')].msg = JsonInit("MsgJoin", <<>>)

DrainNext ==
    \/ spc = "idle" /\ (ShortSend \/ Xfer \/ Close)
    \/ ShutdownCall
    \/ DrainXfer
    \/ DrainClose
DrainSpec == DrainInit /\ [][DrainNext]_vars

\* A Messenger in both directions until it is closed, and what is called on
\* it afterwards.
ClosingNext ==
    \/ ShortPeerSend
    \/ ShortSend
    \/ Xfer
    \/ Close
    \/ closed /\ ShutdownCall
ClosingSpec == DrainInit /\ [][ClosingNext]_vars

\* A Messenger in both directions; shutdown() is called when the write
\* buffer is empty, so that it goes straight to close().
FlagNext ==
    \/ spc = "idle" /\ ShortPeerSend
    \/ spc = "idle" /\ ShortSend
    \/ spc = "idle" /\ Xfer
    \/ spc = "idle" /\ Close
    \/ write_buffer = <<>> /\ ShutdownCall
    \/ DrainClose
FlagSpec == DrainInit /\ [][FlagNext]_vars

\* ------------------------------------------------- a peer that writes on
\* The peer writes one more item, whatever it wrote before: a frame that
\* cannot be extracted may have messages behind it.  It writes one such
\* frame at most.
PeerSendOn ==
    /\ Len(peer_items) < MaxItems
    /\ \E item \in Items(feed) :
        /\ item.msg = NoMsg => \A i \in 1..Len(peer_items) : peer_items[i].msg # NoMsg
        /\ peer_items' = Append(peer_items, item)
        /\ inbound' = inbound \o item.bytes
    /\ UNCHANGED <<dvars, setup, read_buffer, write_buffer, closed,
                   wire_out, sent_bytes, got, result, shutdowns, drain>>

StallInit == MessengerInit /\ feed = "dirty"
StallNext == PeerSendOn \/ Xfer \/ Get
StallSpec == StallInit /\ [][StallNext]_vars

\* --------------------------------------------- a buffer of any content
\* The codecs on a buffer that grows by pieces a peer may send, whatever
\* they are.  The most pieces appended and the most messages peeled.
MaxFrame == 3

\* The bytes of a byte-codec buffer: length bytes 0 to 3, the codes of
\* Identify, Join and Retry, a code that is not registered, and "@".
FrameBytes == {0, 1, 2, 3, 9, 64}

\* A text line that names a type nobody registered: ["N",{}]
UnknownTypeLine == Bytes(<<"[", "\"", "N", "\"", ",", "{", "}", "]">>)

\* The pieces of a text-codec buffer: the line of a message, a line of
\* unregistered type, a letter, the terminator.
FrameLines ==
    { Take(JsonEncoded(JsonInit("MsgJoin", <<>>)),
           Len(JsonEncoded(JsonInit("MsgJoin", <<>>))) - 1),
      UnknownTypeLine,
      Bytes(<<"x">>),
      Bytes(<<"\n">>) }

FrameInit == Fresh(Transports, {"dirty"}, {})

\* buff += piece
Fill ==
    /\ Len(peer_items) < MaxFrame
    /\ \E piece \in (IF transport = "json" THEN FrameLines
                      ELSE {<<b>> : b \in FrameBytes}) :
        /\ peer_items' = Append(peer_items, [msg |-> NoMsg, bytes |-> piece])
        /\ read_buffer' = read_buffer \o piece
    /\ UNCHANGED <<dvars, setup, write_buffer, closed, inbound, wire_out,
                   sent_bytes, got, result, shutdowns, drain>>

\* msg, byte_len = peel_from_buffer(buff) of the codec: the call alone,
\* which reads the buffer and leaves it.
FramePeel ==
    /\ Len(got) < MaxFrame
    /\ \E p \in {peel_from_buffer(transport, read_buffer)} :
        /\ result' = PeelOutcome(p)
        /\ got' = IF p.exc = "none" /\ p.msg # NoMsg THEN Append(got, p.msg) ELSE got
    /\ UNCHANGED <<dvars, setup, read_buffer, write_buffer, closed, inbound,
                   wire_out, sent_bytes, peer_items, shutdowns, drain>>

\* get() of a Messenger whose read buffer this is, where the transport has
\* a Messenger.
FrameGet == import_module(transport) = "ok" /\ Len(got) < MaxFrame /\ Get

FrameNext == Fill \/ FramePeel \/ FrameGet
FrameSpec == FrameInit /\ [][FrameNext]_vars

\* ------------------------------------- a socket in an exceptional condition
\* select(rlist, wlist, xlist, 0): of the sockets listed, those that are in
\* the condition asked for.
select(rlist, wlist, xlist, ready) ==
    [readable |-> rlist \cap ready.r,
     writable |-> wlist \cap ready.w,
     errored  |-> xlist \cap ready.x]

\* The socket of the Messenger.
Sock == "sock"

\* The select() call of xfer(): sockets = [self.__sock], and the list of the
\* sockets to test for an exceptional condition is empty.
XferSelect(ready) == select({Sock}, {Sock}, {}, ready)

\* xfer() with the socket in the conditions r, w of env and, if x, in an
\* exceptional condition as well.
xferReady(st, env, x) ==
    LET ready == [r |-> IF env.r THEN {Sock} ELSE {},
                  w |-> IF env.w THEN {Sock} ELSE {},
                  x |-> IF x THEN {Sock} ELSE {}]
        checked == ~st.closed /\ env.sel = "ok"
    IN IF checked /\ XferSelect(ready).errored # {}
         THEN LET c == close(st.closed, env.shut)
              IN [st |-> [st EXCEPT !.closed = c.closed, !.shutdowns = @ + c.calls],
                  ret |-> IF c.raised THEN "OSError" ELSE "None",
                  checked |-> checked]
         ELSE [st |-> xfer(st, env).st, ret |-> xfer(st, env).ret, checked |-> checked]

\* The application calls xfer() while the socket is in an exceptional
\* condition.
XferExceptional ==
    /\ \E x \in {xferReady(State, env, TRUE) : env \in Environments(State)} :
        /\ read_buffer' = x.st.read_buffer
        /\ write_buffer' = x.st.write_buffer
        /\ closed' = x.st.closed
        /\ inbound' = x.st.inbound
        /\ wire_out' = x.st.wire_out
        /\ shutdowns' = x.st.shutdowns
        /\ result' = [op |-> "xfer", ret |-> x.ret, at |-> 0,
                      errored |-> TRUE, checked |-> x.checked]
    /\ UNCHANGED <<dvars, setup, sent_bytes, peer_items, got, drain>>

ReadyNext == ShortPeerSend \/ ShortSend \/ Xfer \/ XferExceptional
ReadySpec == DrainInit /\ [][ReadyNext]_vars

\* ------------------------------------------------------------ the registry
\* A process that has imported json_messages: the application defines its
\* classes and registers, by register_messages() or class by class.
RegistryInit == Constructed({}, {}, {0}, {"none"}) /\ NoMessenger

\* class c(base): ...
DefineClass ==
    /\ \E c \in AppClasses :
        /\ classes[c] = Undefined
        /\ \E base \in {"Message"} \cup {b \in DOMAIN classes : classes[b] # Undefined} :
            classes' = [classes EXCEPT ![c] = base]
    /\ result' = Outcome("class", "None", 0)
    /\ UNCHANGED <<dvars, transport, feed, class_defs, read_buffer, write_buffer, closed,
                   inbound, wire_out, sent_bytes, peer_items, got, shutdowns, drain>>

\* Message.register_messages()
RegisterMessages ==
    /\ class_defs' = register_messages(class_defs, classes)
    /\ result' = Outcome("register_messages", "None", 0)
    /\ UNCHANGED <<dvars, transport, feed, classes, read_buffer, write_buffer, closed,
                   inbound, wire_out, sent_bytes, peer_items, got, shutdowns, drain>>

\* c.register(), for a class that is defined.
Register ==
    /\ \E c \in DOMAIN classes :
        /\ classes[c] # Undefined
        /\ class_defs' = register(class_defs, c)
    /\ result' = Outcome("register", "None", 0)
    /\ UNCHANGED <<dvars, transport, feed, classes, read_buffer, write_buffer, closed,
                   inbound, wire_out, sent_bytes, peer_items, got, shutdowns, drain>>

RegistryNext == DefineClass \/ RegisterMessages \/ Register
RegistrySpec == RegistryInit /\ [][RegistryNext]_vars

\* ================================================================ claims

\* C1: the PeerTable holds at most one socket per address and a mapped
\* address keeps its socket (first connection wins): no step replaces or
\* removes an entry; the key test and the insert of either worker happen
\* while that worker, and only that worker, holds the session's mutex.
C1_FirstConnectionWins ==
    /\ [][\A h \in Hosts : \A a \in Hosts :
            sockets[h][a] # "none" => sockets'[h][a] = sockets[h][a]]_vars
    /\ [](\A h \in Hosts :
            /\ upc[h] \in {"insert", "release"} => lock[h] = "udp"
            /\ tpc[h] \in {"insert", "release"} => lock[h] = "tcp")
    /\ [][\A h \in Hosts : sockets'[h] # sockets[h] => lock[h] # "free"]_vars

\* Both workers of host 1 obtained a connection for the same address: the
\* outbound socket is in the table and the accepted one was discarded.
C1_Witness ==
    \E a \in Hosts :
        /\ sockets[1][a] = "out"
        /\ tpc[1] = "callback"
        /\ taddr[1] = a

AllExited(h) ==
    /\ bpc[h] \in {"done", "dead"}
    /\ upc[h] \in {"done", "dead"}
    /\ tpc[h] \in {"done", "dead"}
    /\ opc[h] \in {"idle", "done"}

\* C3 as stated: the blocking connect() returns only after all workers of
\* the session have exited.
C3_ReturnsAfterWorkers ==
    \A h \in Hosts : mpc[h] \in {"returned", "interrupted"} => AllExited(h)

\* C4: with a timeout configured the session stops by itself; the timeout
\* worker clears the flag only once the deadline has passed or the flag is
\* already false; without a timeout there is no timeout worker.
C4_TimeoutStopsSession ==
    /\ \A h \in Hosts :
         (mpc[h] = "join" /\ timeout[h] > 0)
            ~> (~broadcast_enable[h] /\ AllExited(h))
    /\ [][\A h \in Hosts :
            (opc[h] = "loop" /\ opc'[h] = "done")
               => (time_left[h] = 0 \/ ~broadcast_enable[h])]_vars
    /\ [](\A h \in Hosts : timeout[h] = 0 => opc[h] = "idle")

\* The timeout worker has ended a session that saw no datagram and made no
\* connection.
C4_Witness ==
    /\ timeout[1] > 0
    /\ opc[1] = "done"
    /\ time_left[1] = 0
    /\ addresses(1) = {}
    /\ mpc[1] = "returned"

\* C10 as stated: a listener thread ended by a socket error, in set-up or in
\* its loop, has cleared the flag.
C10_ListenerFailureStopsSession ==
    \A h \in Hosts :
        (upc[h] = "dead" \/ tpc[h] = "dead") => ~broadcast_enable[h]

\* The step by which the discovery listener of h leaves a connect that
\* failed.
ConnectFailed(h) ==
    upc[h] = "connect" /\ upc'[h] # "connect" /\ upc'[h] # "lock"

HasConnection(pc) == pc \in {"lock", "insert", "release", "callback"}

\* C12: every established connection, outbound or accepted, stored or
\* duplicate, reaches the on-connect callback of its own worker exactly once:
\* the worker goes from the connect / accept through the locked section to the
\* callback with the same peer, enters the callback by the step that releases
\* the mutex, never holds the mutex in it, and leaves it for the loop with
\* the connection handed over; a callback that stops the session does so there.
\* No other step leads a worker holding a connection anywhere else, so the
\* callback is neither skipped nor repeated.
C12_CallbackOncePerConnection ==
    /\ [](\A h \in Hosts :
            /\ upc[h] = "callback" => lock[h] # "udp"
            /\ tpc[h] = "callback" => lock[h] # "tcp")
    /\ [][\A h \in Hosts :
            /\ (HasConnection(upc[h]) /\ upc'[h] # upc[h]) =>
                  /\ upc[h] = "lock" => upc'[h] \in {"insert", "release"}
                  /\ upc[h] \in {"insert", "release"} =>
                        (upc'[h] = "callback" /\ lock[h] = "udp" /\ lock'[h] = "free")
                  /\ upc[h] = "callback" =>
                        /\ upc'[h] = "loop"
                        /\ uaddr'[h] = NoAddr
                        /\ on_connect[h] = "stop" => ~broadcast_enable'[h]
                  /\ upc[h] # "callback" => uaddr'[h] = uaddr[h]
            /\ (HasConnection(tpc[h]) /\ tpc'[h] # tpc[h]) =>
                  /\ tpc[h] = "lock" => tpc'[h] \in {"insert", "release"}
                  /\ tpc[h] \in {"insert", "release"} =>
                        (tpc'[h] = "callback" /\ lock[h] = "tcp" /\ lock'[h] = "free")
                  /\ tpc[h] = "callback" =>
                        /\ tpc'[h] = "loop"
                        /\ taddr'[h] = NoAddr
                        /\ on_connect[h] = "stop" => ~broadcast_enable'[h]
                  /\ tpc[h] # "callback" => taddr'[h] = taddr[h]
            /\ (upc'[h] = "callback" /\ upc[h] # "callback") => upc[h] \in {"insert", "release"}
            /\ (tpc'[h] = "callback" /\ tpc[h] # "callback") => tpc[h] \in {"insert", "release"}]_vars

\* The discovery listener is at the callback with a duplicate: the PeerTable
\* holds the socket accepted from the same address, not the one it made.
C12_Witness ==
    /\ upc[1] = "callback"
    /\ sockets[1][uaddr[1]] = "in"
    /\ lock[1] = "free"
    /\ on_connect[1] = "stop"

\* The step by which the discovery listener of h takes a datagram.
RecvStep(h) ==
    /\ upc[h] = "loop"
    /\ upc'[h] \in {"loop", "connect"}
    /\ broadcast_enable[h]
    /\ dgram[h] # <<>>
    /\ dgram'[h] = Tail(dgram[h])

\* C13: a datagram from the session's own address with loopback disallowed,
\* or from an address that is in the PeerTable when it is processed, starts
\* no connect; an attempt is made only to the sender of the datagram taken;
\* with loopback allowed a datagram from the own address, not yet in the
\* table, does start one.
C13_SelfFilter ==
    [][\A h \in Hosts :
         /\ (RecvStep(h) /\ ~allow_loopback[h] /\ Head(dgram[h]) = local_ip[h])
               => upc'[h] = "loop"
         /\ (RecvStep(h) /\ Head(dgram[h]) \in addresses(h))
               => upc'[h] = "loop"
         /\ (upc[h] # "connect" /\ upc'[h] = "connect")
               => (RecvStep(h) /\ uaddr'[h] = Head(dgram[h]))
         /\ (RecvStep(h) /\ allow_loopback[h] /\ Head(dgram[h]) = local_ip[h]
                /\ Head(dgram[h]) \notin addresses(h))
               => (upc'[h] = "connect" /\ uaddr'[h] = local_ip[h])]_vars

\* The listener, loopback disallowed, is about to take its own broadcast, and
\* after it a datagram from a peer that is already in the PeerTable.
C13_Witness ==
    /\ ~allow_loopback[1]
    /\ upc[1] = "loop"
    /\ broadcast_enable[1]
    /\ Len(dgram[1]) > 1
    /\ dgram[1][1] = local_ip[1]
    /\ dgram[1][2] \in addresses(1)

\* ------------------------------------------------------ Messenger claims
\* The messages the peer has written, and the bytes of its items from the
\* n+1st on.
PeerMessages == [i \in 1..Len(peer_items) |-> peer_items[i].msg]
BytesAfter(n) ==
    Concat([i \in 1..(Len(peer_items) - n) |-> peer_items[n + i].bytes])

\* A step in which get() was called.
GetStep == result'.op = "get" /\ peer_items' = peer_items

\* A step in which xfer() was called.
XferStep == result'.op = "xfer" /\ sent_bytes' = sent_bytes

\* C5: text transport, the peer writes encoded messages, recv() cuts the
\* stream anywhere: get() has returned the first messages written, each once
\* and in order; what is buffered and in flight is exactly the encodings of
\* the messages not yet returned; a get() on a buffer without terminator
\* returns None and leaves the buffer, and a get() on a buffer with one
\* returns the next message written.
C5_TextMessagesInOrder ==
    /\ []((transport = "json" /\ feed = "clean") =>
            /\ Len(got) <= Len(peer_items)
            /\ \A i \in 1..Len(got) : SameMessage(got[i], PeerMessages[i])
            /\ read_buffer \o inbound = BytesAfter(Len(got)))
    /\ [][(transport = "json" /\ feed = "clean" /\ GetStep) =>
            IF Find(read_buffer, 10) = -1
              THEN result'.ret = "None" /\ read_buffer' = read_buffer /\ got' = got
              ELSE /\ result'.ret = "Message"
                   /\ Len(got') = Len(got) + 1
                   /\ SameMessage(got'[Len(got')], PeerMessages[Len(got')])]_vars

\* After one message was returned, a get() found the start of the next one
\* without its end, returned None and left it buffered; the rest is in flight.
C5_Witness ==
    /\ transport = "json"
    /\ feed = "clean"
    /\ Len(got) = 1
    /\ read_buffer # <<>>
    /\ Find(read_buffer, 10) = -1
    /\ inbound # <<>>
    /\ result = Outcome("get", "None", 0)

\* C6: the bytes the socket accepted followed by the write buffer are the
\* encodings of the messages passed to send(), in call order; send() appends
\* the encoding to the write buffer and touches nothing else; xfer() moves a
\* prefix of the write buffer, of the length the socket accepted, to the wire.
C6_OutboundIntegrity ==
    /\ [](wire_out \o write_buffer = Concat(sent_bytes))
    /\ [][sent_bytes' # sent_bytes =>
            /\ write_buffer' = write_buffer \o sent_bytes'[Len(sent_bytes')]
            /\ wire_out' = wire_out
            /\ closed' = closed
            /\ read_buffer' = read_buffer
            /\ inbound' = inbound]_vars
    /\ [][XferStep =>
            \E n \in 0..Len(write_buffer) :
                /\ wire_out' = wire_out \o Take(write_buffer, n)
                /\ write_buffer' = Drop(write_buffer, n)]_vars

\* Two messages were passed to send(); the socket accepted a part of the
\* first one only, the rest is still in the write buffer.
C6_Witness ==
    /\ Len(sent_bytes) = 2
    /\ wire_out # <<>>
    /\ Len(wire_out) < Len(sent_bytes[1])
    /\ Len(write_buffer) > Len(sent_bytes[2])

\* C7 as stated: with either codec in use, what get() does with the result
\* of peel_from_buffer removes exactly the bytes of the message returned,
\* so that the buffer left is the encodings of the messages behind it.
C7_GetDropsExactlyTheMessage ==
    LET g == GetPeeled(read_buffer, peel_from_buffer(transport, read_buffer))
    IN g.ret = "Message" =>
         g.read_buffer = Drop(read_buffer, Len(encoded(transport, g.msg)))

\* C8 as stated: xfer() returns normally whatever select(), recv(), send()
\* and shutdown() do.
C8_XferNeverRaises ==
    result.op = "xfer" => result.ret \in {"None", "False"}

\* C9 as stated: with the text codec get() returns a message or None, or
\* raises the unknown-message-type error, and nothing else.
C9_GetRaisesOnlyUnknownType ==
    (transport = "json" /\ result.op = "get") =>
        \/ result.ret \in {"Message", "None"}
        \/ result.ret = "KeyError" /\ result.at = 69
PeelStep == result'.op = "peel" /\ peer_items' = peer_items

\* C14: peel_from_buffer on the encoding of one message returns a message of
\* the same class with equal attributes, and the length of the encoding as
\* byte_len, less the terminator for the text codec.
C14_RoundTrip ==
    [][\A m \in CodecMessages(transport) :
         (PeelStep /\ read_buffer = encoded(transport, m)) =>
            /\ result'.ret = "Message"
            /\ Len(got') = Len(got) + 1
            /\ SameMessage(got'[Len(got')], m)
            /\ result'.byte_len =
                  Len(encoded(transport, m)) - (IF transport = "json" THEN 1 ELSE 0)]_vars

\* A message with a payload was encoded alone and peeled.
C14_Witness ==
    /\ Len(peer_items) = 1
    /\ peer_items[1].msg.attrs # <<>>
    /\ result.op = "peel"
    /\ result.ret = "Message"
    /\ got = <<peer_items[1].msg>>
    /\ read_buffer = <<>>

\* C15 as stated: successive peels with the consumed length dropped yield
\* the encoded messages in order, each equal to the original, and leave the
\* encodings of the following ones.
C15_ConcatenationYieldsOriginals ==
    /\ Len(got) <= Len(peer_items)
    /\ \A i \in 1..Len(got) : SameMessage(got[i], PeerMessages[i])
    /\ read_buffer = BytesAfter(Len(got))
    /\ result.op = "peel" => result.ret = "Message"
\* A buffer that holds no complete frame: empty, a byte-codec buffer shorter
\* than its first byte says, a text-codec buffer without terminator.
Partial(tr, buf) ==
    \/ buf = <<>>
    \/ tr = "byte" /\ buf[1] > Len(buf)
    \/ tr = "json" /\ Find(buf, 10) = -1

\* C16: on a buffer that holds no complete frame peel_from_buffer yields
\* (None, 0), and get() returns None, leaves the read buffer as it was and
\* hands out no message.
C16_PartialBufferStable ==
    /\ [](Partial(transport, read_buffer) =>
            peel_from_buffer(transport, read_buffer) = Peeled(NoMsg, 0))
    /\ [][(PeelStep /\ Partial(transport, read_buffer)) =>
            /\ result'.ret = "None"
            /\ read_buffer' = read_buffer
            /\ got' = got]_vars
    /\ [][(GetStep /\ Partial(transport, read_buffer)) =>
            /\ result'.ret = "None"
            /\ read_buffer' = read_buffer
            /\ got' = got]_vars

\* peel_from_buffer was called on the first two bytes of a three-byte frame
\* of the byte codec, returned (None, 0) and left them.
C16_Witness ==
    /\ transport = "byte"
    /\ Len(read_buffer) = 2
    /\ read_buffer[1] = 3
    /\ result = PeelOutcome(Peeled(NoMsg, 0))
\* The buffer starts with a complete frame whose type key is not registered.
UnknownFrame(tr, buf) ==
    IF tr = "byte"
      THEN /\ Len(buf) >= 2
           /\ Len(buf) >= buf[1]
           /\ \A c \in DOMAIN ByteClassDefs : ByteClassDefs[c] # buf[2]
      ELSE /\ Find(buf, 10) = Len(UnknownTypeLine)
           /\ Take(buf, Len(UnknownTypeLine)) = UnknownTypeLine

\* C17: on a complete frame of unregistered type peel_from_buffer raises
\* KeyError (the byte codec at line 46, the text codec at line 69), and so
\* does get(), which returns no message and leaves the frame in the buffer.
C17_UnknownTypeRaises ==
    /\ [](UnknownFrame(transport, read_buffer) =>
            peel_from_buffer(transport, read_buffer)
               = Raised("KeyError", IF transport = "byte" THEN 46 ELSE 69))
    /\ [][((PeelStep \/ GetStep) /\ UnknownFrame(transport, read_buffer)) =>
            /\ result'.ret = "KeyError"
            /\ got' = got
            /\ read_buffer' = read_buffer]_vars

\* get() has raised KeyError on the text line of unregistered type and
\* left it in the buffer.
C17_Witness ==
    /\ transport = "json"
    /\ got = <<>>
    /\ UnknownFrame(transport, read_buffer)
    /\ result = Outcome("get", "KeyError", 69)
\* ------------------------------------------------------- closing claims
\* A step in which the application called op on the Messenger.
CallStep(op) ==
    result'.op = op /\ sent_bytes' = sent_bytes /\ peer_items' = peer_items

\* The call left the Messenger and its socket as they were.
Untouched ==
    /\ read_buffer' = read_buffer
    /\ write_buffer' = write_buffer
    /\ inbound' = inbound
    /\ wire_out' = wire_out
    /\ shutdowns' = shutdowns
    /\ closed' = closed

\* C18: closed, once true, stays true; on a closed Messenger xfer() returns
\* False, close() and shutdown() return, and none of them reads, writes or
\* shuts the socket down or changes a buffer; the socket is shut down at most
\* once in the life of the Messenger.
C18_ClosedIsAbsorbing ==
    /\ [][closed => closed']_vars
    /\ [](shutdowns <= 1)
    /\ [][closed => shutdowns' = shutdowns]_vars
    /\ [][(closed /\ CallStep("xfer")) => (Untouched /\ result'.ret = "False")]_vars
    /\ [][(closed /\ CallStep("close")) => (Untouched /\ result'.ret = "None")]_vars
    /\ [][(closed /\ CallStep("shutdown")) =>
            (Untouched /\ result'.ret = "None" /\ spc' = "idle")]_vars

\* shutdown() was called on a Messenger closed by close(), with bytes in
\* both buffers and in flight: all are still there.
C18_Witness ==
    /\ closed
    /\ shutdowns = 1
    /\ read_buffer # <<>>
    /\ write_buffer # <<>>
    /\ inbound # <<>>
    /\ result = Outcome("shutdown", "None", 0)
\* A turn of the loop of shutdown() whose xfer() returned.
DrainTurn == spc = "loop" /\ spc' = "loop" /\ watchdog' = watchdog + 1

\* The step by which a shutdown() call returns.
DrainReturn == spc = "loop" /\ spc' = "idle" /\ result'.ret = "None"

\* C19: a shutdown() call makes at most WatchdogLimit calls of xfer(), each
\* of them with bytes in the write buffer; each turn hands a prefix of the
\* write buffer to the socket and keeps the rest, so no byte is lost or
\* reordered; the call leaves the loop, to close and return, only with the
\* write buffer empty or the budget spent (as it is when an I/O failure had
\* marked the Messenger closed with bytes left); when it returns the
\* Messenger is closed.
C19_ShutdownDrains ==
    /\ [](watchdog <= WatchdogLimit)
    /\ [](wire_out \o write_buffer = Concat(sent_bytes))
    /\ [][DrainTurn =>
            /\ watchdog < WatchdogLimit
            /\ write_buffer # <<>>
            /\ \E n \in 0..Len(write_buffer) :
                  /\ wire_out' = wire_out \o Take(write_buffer, n)
                  /\ write_buffer' = Drop(write_buffer, n)]_vars
    /\ [][(spc = "loop" /\ spc' = "idle") =>
            \/ write_buffer = <<>> \/ watchdog = WatchdogLimit
            \/ result'.ret \in {"OSError", "UnboundLocalError"}]_vars
    /\ [][DrainReturn =>
            /\ closed'
            /\ write_buffer' = write_buffer
            /\ (write_buffer = <<>> \/ watchdog = WatchdogLimit)
            /\ (write_buffer # <<>> /\ ~closed) => shutdowns' = shutdowns + 1]_vars

\* shutdown() has returned with the budget spent: the socket never took the
\* last bytes, and the Messenger is closed with them.
C19_Witness ==
    /\ spc = "idle"
    /\ result = Outcome("shutdown", "None", 0)
    /\ watchdog = WatchdogLimit
    /\ write_buffer # <<>>
    /\ wire_out # <<>>
    /\ closed
\* -------------------------------------------------------- registry claims
\* C21 as stated: after register_messages() every message class defined,
\* derived from Message directly or through another message class, is
\* registered.
C21_RegistersEveryMessageType ==
    result.op = "register_messages" =>
        \A c \in DOMAIN classes :
            classes[c] # Undefined => is_registered(class_defs, c)
\* ----------------------------------------------------------- stall claims
\* The read buffer starts with a frame get() cannot extract: a terminated
\* line that yields no message.
BadFrame(buf) == Find(buf, 10) > -1 /\ get(buf).ret # "Message"

\* C22: a get() on a frame it cannot extract returns no message and leaves
\* the read buffer and the messages handed out as they were; whatever
\* happens next (xfer() appending data or closing), the frame stays at the
\* front, get() keeps the same outcome and no message is handed out.
C22_NoResynchronisation ==
    /\ [][(GetStep /\ BadFrame(read_buffer)) =>
            /\ result'.ret = get(read_buffer).ret
            /\ result'.ret # "Message"
            /\ read_buffer' = read_buffer
            /\ got' = got]_vars
    /\ [][BadFrame(read_buffer) =>
            /\ BadFrame(read_buffer')
            /\ get(read_buffer').ret = get(read_buffer).ret
            /\ get(read_buffer').at = get(read_buffer).at
            /\ got' = got]_vars

\* The peer wrote a malformed line and then a message; all of it is in the
\* read buffer, and get() has returned None and no message.
C22_Witness ==
    /\ transport = "json"
    /\ Len(peer_items) = 2
    /\ peer_items[1].msg = NoMsg
    /\ peer_items[2].msg # NoMsg
    /\ read_buffer = peer_items[1].bytes \o peer_items[2].bytes
    /\ got = <<>>
    /\ result = Outcome("get", "None", 0)
\* ------------------------------------------------------ byte frame claims
\* C23 as stated: the message peeled from a byte-codec buffer that starts
\* with a complete frame is the one peeled from the frame alone,
\* buffer[0:total_length]: the bytes behind the frame do not reach
\* decode_data.
C23_PayloadIsTheFrameOnly ==
    (/\ transport = "byte"
     /\ read_buffer # <<>>
     /\ Len(read_buffer) >= read_buffer[1]) =>
        BytePeelFromBuffer(read_buffer)
           = BytePeelFromBuffer(Take(read_buffer, read_buffer[1]))
\* C27 as stated: whatever bytes a byte-codec buffer holds,
\* peel_from_buffer raises no IndexError, and yields either
\* (None, 0) or a message with a count that is the length byte, at least 2
\* and at most the length of the buffer.
C27_PeelStaysInsideTheFrame ==
    transport = "byte" =>
        LET p == BytePeelFromBuffer(read_buffer)
        IN /\ p.exc # "IndexError"
           /\ p.exc = "none" =>
                \/ p = Peeled(NoMsg, 0)
                \/ /\ p.msg # NoMsg
                   /\ p.byte_len = read_buffer[1]
                   /\ p.byte_len >= 2
                   /\ p.byte_len <= Len(read_buffer)
\* ------------------------------------------------------- readiness claims
\* C24 as stated: an xfer() whose readiness check finds the socket in an
\* error condition closes the Messenger in that call and neither receives
\* nor sends.
C24_ErrorConditionCloses ==
    [][(/\ result'.op = "xfer"
        /\ "errored" \in DOMAIN result'
        /\ result'.checked) =>
            /\ closed'
            /\ shutdowns' = shutdowns + 1
            /\ read_buffer' = read_buffer
            /\ inbound' = inbound
            /\ write_buffer' = write_buffer
            /\ wire_out' = wire_out]_vars
\* -------------------------------------------------------- session claims
\* C25 as stated: a session starts with an empty table: when connect() is
\* called again, addresses() holds nothing of the session before.
C25_SessionStartsEmpty ==
    [][\A h \in Hosts :
          (mpc[h] \in {"returned", "interrupted", "raised"} /\ mpc'[h] = "made") =>
              \A a \in Hosts : sockets'[h][a] = "none"]_vars

\* C26 as stated: without loopback the local address of a session never
\* is among its addresses().
C26_NoLoopbackAddress ==
    \A h \in Hosts :
        (~allow_loopback[h] /\ local_ip[h] # NoAddr) => local_ip[h] \notin addresses(h)
\* ----------------------------------------------------- closed flag claims
\* An xfer() meets an error that closes: select() or recv() raises, or
\* send() raises BrokenPipeError.
ClosingFault(st, env) ==
    \/ env.sel = "IOError"
    \/ env.r /\ env.rcv \in {"BrokenPipeError", "ConnectionResetError", "IOError"}
    \/ env.w /\ st.write_buffer # <<>> /\ env.snd = "BrokenPipeError"

\* recv() is called and returns no bytes, or raises BlockingIOError.
NothingReceived(env) ==
    /\ env.sel = "ok"
    /\ env.r
    /\ (env.rcv = "data" /\ env.k = 0) \/ env.rcv = "BlockingIOError"

\* C28: closed turns true only in a close(), a shutdown() or an xfer(), and
\* in an xfer() only by an error of select(), recv() or send(); a recv()
\* that returns no bytes or would block leaves both buffers and the flag,
\* and the send step follows as if nothing was read; a recv() that returns
\* data appends it and the send step hands out bytes in the same call; a
\* recv() whose error leaves xfer() is not followed by a send.
C28_ClosedOnlyByCloseOrFault ==
    /\ [][(closed' /\ ~closed) => result'.op \in {"close", "shutdown", "xfer"}]_vars
    /\ [](~closed =>
            \A env \in Environments(State) :
                LET x == xfer(State, env)
                IN /\ x.st.closed => ClosingFault(State, env)
                   /\ NothingReceived(env) =>
                        /\ XferRead(State, env) = [st |-> State, raised |-> FALSE]
                        /\ x = [st |-> XferWrite(State, env), ret |-> "None"]
                        /\ x.st.read_buffer = read_buffer
                   /\ (env.sel = "ok" /\ env.r /\ env.rcv = "data") =>
                        /\ x.st.read_buffer = read_buffer \o Take(inbound, env.k)
                        /\ (env.w /\ write_buffer # <<>> /\ env.snd = "ok") =>
                              x.st.wire_out = wire_out \o Take(write_buffer, env.n)
                   /\ x.ret = "OSError" => x.st.wire_out = wire_out)

\* xfer() has returned on an open Messenger: what the peer wrote is in the
\* read buffer, what was passed to send() is on the wire, and the next
\* recv() on the read-ready socket returns no bytes.
C28_Witness ==
    /\ ~closed
    /\ result = Outcome("xfer", "None", 0)
    /\ peer_items # <<>>
    /\ inbound = <<>>
    /\ read_buffer # <<>>
    /\ sent_bytes # <<>>
    /\ write_buffer = <<>>
    /\ wire_out # <<>>
====
